---- MODULE Spec2Model ----
(***************************************************************************)
(* Pay-to-MultiSig-Hash (P2MSH) script template of ts-templates:           *)
(* src/template/multisig/MultiSigPubkeyHash.ts.                            *)
(*                                                                         *)
(* Byte strings are sequences of 0..255.  A script is a sequence of        *)
(* chunks [op, hasData, data]; hasData is FALSE for a chunk written by     *)
(* writeOpCode (its data field is undefined in the source).                *)
(***************************************************************************)
EXTENDS Integers, Sequences, FiniteSets, TLC

(* ------------------------------------------------------------------ *)
(* Bounds of the model                                                 *)
(* ------------------------------------------------------------------ *)

\* largest key list explored by the free-order signing specification
MaxFreeKeys == 3
\* most sign calls explored by the free-order signing specification
MaxSignCalls == 4
\* key lists of 1..MaxTotal+MaxKeysSlack keys, and thresholds up to one more
\* than the keys, are offered to address and lock
MaxKeysSlack == 1
\* largest key list behind an address made elsewhere
MaxForeignKeys == 3
\* largest key list, and most signature requests of one template, explored
\* under every signing context and scope
MaxCallerKeys == 2
MaxCallerCalls == 2
\* largest key list, and most sign calls, of a run that estimates and signs
MaxEstimateKeys == 3
MaxEstimateCalls == 2
\* largest key list, and most sign calls, of a run that signs repeatedly
\* with one object returned by unlock
MaxClosureKeys == 2
MaxClosureCalls == 3
\* largest key list, and most sign calls, of a run over the sequence numbers
MaxSequenceKeys == 2
MaxSequenceCalls == 2
\* largest key list of a locking script whose numbers estimateLength reads
MaxScriptKeys == 17
\* largest key list of the protocol run to its end under fairness
MaxLiveKeys == 4
\* largest key list, and most signature requests of one template and most
\* signatures, explored with a wallet that may fail
MaxFaultyKeys == 2
MaxFaultyCalls == 2
\* largest key list, and most signature requests, explored with sign calls
\* that start and finish separately
MaxAsyncKeys == 3
MaxAsyncCalls == 2
\* most counterparties whose keys addressBRC29 requests at once
MaxDerivedKeys == 3
\* largest committed key list, and most sign calls, explored with signers
\* whose instructions carry other key lists
MaxSuppliedKeys == 3
MaxSuppliedCalls == 1

(* ------------------------------------------------------------------ *)
(* Program constants                                                   *)
(* ------------------------------------------------------------------ *)

OP_0 == 0
OP_PUSHDATA1 == 76
OP_1 == 81
OP_16 == 96
OP_DUP == 118
OP_SWAP == 124
OP_CAT == 126
OP_SPLIT == 127
OP_EQUALVERIFY == 136
OP_HASH160 == 169
OP_CHECKMULTISIG == 174

\* version byte of a P2MSH address (0x98)
P2MSHPrefix == 152
\* lock: at least 2 pubkeys, at most 10
MinTotal == 2
MaxTotal == 10
\* byte length of a compressed public key, written by lock as push(33)
PubkeyLen == 33
\* length of the HASH160 digest read by reader.read(20)
HashLen == 20
\* estimateLength: staticLength, bytes per signature, bytes per pubkey, guess
StaticLength == 1
SigEstimate == 74
PubkeyEstimate == 34
GuessLength == 1000
\* SIGHASH flags of TransactionSignature
SIGHASH_ALL == 1
SIGHASH_NONE == 2
SIGHASH_SINGLE == 3
SIGHASH_FORKID == 64
SIGHASH_ANYONECANPAY == 128

(* ------------------------------------------------------------------ *)
(* Bytes, keys and hashes                                              *)
(* ------------------------------------------------------------------ *)

\* a.concat(b) folded over a list of byte strings (joined by halves, which
\* keeps the evaluation shallow)
RECURSIVE FlattenRange(_, _, _)
FlattenRange(seqs, lo, hi) ==
    IF lo > hi THEN <<>>
    ELSE IF lo = hi THEN seqs[lo]
    ELSE LET mid == (lo + hi) \div 2
         IN FlattenRange(seqs, lo, mid) \o FlattenRange(seqs, mid + 1, hi)

\* (the argument is evaluated once and bound, here and in the definitions
\* below that bind through a one-element set)
Flatten(seqs) == CHOOSE f \in {FlattenRange(s, 1, Len(s)) : s \in {seqs}} : TRUE

\* PublicKey.toDER(): the 33-byte compressed encoding of the key of signer i
KeyDER(i) ==
    [j \in 1..PubkeyLen |-> IF j = 1 THEN 2 + (i % 2) ELSE (i * 37 + j * 11) % 256]

\* a digest of the input in which every byte and its position count: the sum
\* of the bytes, each weighted by its position, from a seed
HashModulus == 16777213
ByteWeight(j) == (j * 7919 + 13) % 65521
RECURSIVE AbsorbRange(_, _, _)
AbsorbRange(bytes, lo, hi) ==
    IF lo > hi THEN 0
    ELSE IF lo = hi THEN (bytes[lo] + 1) * ByteWeight(lo)
    ELSE LET mid == (lo + hi) \div 2
         IN (AbsorbRange(bytes, lo, mid) + AbsorbRange(bytes, mid + 1, hi)) % HashModulus

Absorb(bytes, seed) ==
    CHOOSE h \in {(AbsorbRange(b, 1, Len(b)) + seed * (Len(b) + 1)) % HashModulus :
                  b \in {bytes}} : TRUE

\* Hash.hash160: a 20-byte digest of the input
Hash160(bytes) ==
    CHOOSE d \in {[j \in 1..HashLen |->
                     CASE j % 3 = 1 -> (h + j \div 3) % 256
                       [] j % 3 = 2 -> ((h \div 256) + j \div 3) % 256
                       [] OTHER     -> ((h \div 65536) + j \div 3) % 256] :
                  h \in {Absorb(bytes, 160)}} : TRUE

\* Hash.hash256, cut to the 4 checksum bytes base58check keeps of it
Checksum4(bytes) ==
    LET h == Absorb(bytes, 58)
    IN <<h % 256, (h \div 256) % 256, (h \div 65536) % 256, Len(bytes) % 256>>

concatPubkeys(pubkeys) == Flatten([k \in 1..Len(pubkeys) |-> KeyDER(pubkeys[k])])

(* ------------------------------------------------------------------ *)
(* Utils.Writer / Utils.Reader / base58check                           *)
(* ------------------------------------------------------------------ *)

\* Writer.writeVarIntNum
VarIntNum(n) ==
    IF n < 253 THEN <<n>>
    ELSE <<253, n % 256, (n \div 256) % 256>>

\* Reader.readVarIntNum at position pos (1-based): [value, next]; past the end
\* of the data the source reads undefined, which is -1 here
ReadVarIntNum(bytes, pos) ==
    IF pos > Len(bytes) THEN [value |-> -1, next |-> pos + 1]
    ELSE IF bytes[pos] < 253
    THEN [value |-> bytes[pos], next |-> pos + 1]
    ELSE [value |-> bytes[pos + 1] + 256 * bytes[pos + 2], next |-> pos + 3]

\* Utils.toBase58Check(data, prefix): prefix, payload, 4 checksum bytes
toBase58Check(data, prefix) ==
    LET body == prefix \o data IN body \o Checksum4(body)

\* Utils.fromBase58Check(str): splits the one-byte prefix from the payload and
\* verifies the checksum; ok is FALSE where the source throws 'Invalid checksum'
fromBase58Check(str) ==
    LET n == Len(str)
        body == SubSeq(str, 1, n - 4)
    IN [ok     |-> n >= 5 /\ SubSeq(str, n - 3, n) = Checksum4(body),
        prefix |-> SubSeq(str, 1, 1),
        data   |-> SubSeq(str, 2, n - 4)]

(* ------------------------------------------------------------------ *)
(* Script chunks                                                       *)
(* ------------------------------------------------------------------ *)

\* Script.writeOpCode
OpChunk(op) == [op |-> op, hasData |-> FALSE, data |-> <<>>]

\* Script.writeBin: the push opcode is the length for fewer than 76 bytes
BinChunk(bin) ==
    [op |-> IF Len(bin) = 0 THEN OP_0
            ELSE IF Len(bin) < OP_PUSHDATA1 THEN Len(bin)
            ELSE OP_PUSHDATA1,
     hasData |-> TRUE, data |-> bin]

\* BigNumber.toSm('little') of a positive number below 32768
ToSmLE(n) ==
    IF n < 128 THEN <<n>>
    ELSE IF n < 256 THEN <<n, 0>>
    ELSE <<n % 256, n \div 256>>

\* Script.writeNumber: OP_0, the minimal opcode OP_1..OP_16, or a data push
NumberChunk(n) ==
    IF n = 0 THEN OpChunk(OP_0)
    ELSE IF n >= 1 /\ n <= 16 THEN OpChunk(n + OP_1 - 1)
    ELSE BinChunk(ToSmLE(n))

\* Reader.readInt64LEBn over the chunk's data
RECURSIVE LittleEndian(_)
LittleEndian(bytes) ==
    IF bytes = <<>> THEN 0 ELSE Head(bytes) + 256 * LittleEndian(Tail(bytes))

\* mutant: the opcode branch without its leading 1 +
numberFromScriptChunkOffByOne(chunk) ==
    IF ~chunk.hasData
    THEN chunk.op - OP_1
    ELSE LittleEndian(chunk.data)

\* mutant: every chunk is read as a data push
numberFromScriptChunkDataOnly(chunk) ==
    LittleEndian(chunk.data)

numberFromScriptChunk(chunk) ==
    IF ~chunk.hasData
    THEN 1 + chunk.op - OP_1
    ELSE LittleEndian(chunk.data)

\* Script.toBinary of one chunk, and the byte length of a script
ChunkBytes(chunk) ==
    IF ~chunk.hasData THEN <<chunk.op>>
    ELSE IF chunk.op < OP_PUSHDATA1 THEN <<chunk.op>> \o chunk.data
    ELSE <<chunk.op, Len(chunk.data)>> \o chunk.data

toBinary(chunks) == Flatten([k \in 1..Len(chunks) |-> ChunkBytes(chunks[k])])

\* Script.fromBinary, one chunk at pos: an opcode 1..75 is followed by that
\* many bytes of data, OP_PUSHDATA1 by a length byte and the data
ParseChunk(bytes, pos) ==
    LET op == bytes[pos] IN
    IF op > 0 /\ op < OP_PUSHDATA1
    THEN [chunks |-> <<[op |-> op, hasData |-> TRUE,
                        data |-> SubSeq(bytes, pos + 1, pos + op)]>>,
          next |-> pos + 1 + op]
    ELSE IF op = OP_PUSHDATA1
    THEN [chunks |-> <<[op |-> op, hasData |-> TRUE,
                        data |-> SubSeq(bytes, pos + 2, pos + 1 + bytes[pos + 1])]>>,
          next |-> pos + 2 + bytes[pos + 1]]
    ELSE [chunks |-> <<OpChunk(op)>>, next |-> pos + 1]

\* at most n chunks from pos on (read by halves, which keeps the evaluation shallow)
RECURSIVE ParseFrom(_, _, _)
ParseFrom(bytes, pos, n) ==
    IF pos > Len(bytes) \/ n = 0 THEN [chunks |-> <<>>, next |-> pos]
    ELSE IF n = 1 THEN ParseChunk(bytes, pos)
    ELSE CHOOSE r \in UNION {{[chunks |-> a.chunks \o b.chunks, next |-> b.next] :
                                  b \in {ParseFrom(bytes, a.next, n - n \div 2)}} :
                              a \in {ParseFrom(bytes, pos, n \div 2)}} : TRUE

fromBinary(bytes) ==
    CHOOSE chunks \in {ParseFrom(b, 1, Len(b)).chunks : b \in {bytes}} : TRUE

Repeat(n, chunks) == Flatten([k \in 1..n |-> chunks])

(* ------------------------------------------------------------------ *)
(* MultiSigPubkeyHash.address / thresholdAndTotalFromAddress / lock    *)
(* ------------------------------------------------------------------ *)

\* the outcome of a call: a returned value or a thrown error; Unset before the call
Unset == [set |-> FALSE]
Ok(v) == [set |-> TRUE, ok |-> TRUE, error |-> "none", value |-> v]
Err(e) == [set |-> TRUE, ok |-> FALSE, error |-> e]
Returned(r) == r.set /\ r.ok
Threw(r, e) == r.set /\ ~r.ok /\ r.error = e

\* an optional argument or field: absent, or present with a value
Absent == [set |-> FALSE]
Some(v) == [set |-> TRUE, value |-> v]

InvalidThreshold == "threshold must be between 1 and the number of pubkeys"
InsufficientKeys == "at least 2 pubkeys are required"
\* address: `at least ${threshold || 2} pubkeys are required`
AtLeastKeys(threshold) ==
    "at least " \o ToString(IF threshold = 0 THEN 2 ELSE threshold)
    \o " pubkeys are required"
TooManyParticipants == "total must be less than or equal to 10"
WrongAddressType == "only P2MSH is supported, set your prefix byte to 0x98"
InvalidChecksum == "Invalid checksum"

\* mutant: total written before threshold
AddressPayloadSwapped(hash, threshold, total) ==
    hash \o VarIntNum(total) \o VarIntNum(threshold)

\* payload written by address: hash, varint(threshold), varint(total)
AddressPayload(hash, threshold, total) ==
    hash \o VarIntNum(threshold) \o VarIntNum(total)

address(pubkeys, threshold) ==
    IF threshold < 1 \/ threshold > Len(pubkeys) THEN Err(InvalidThreshold)
    ELSE IF Len(pubkeys) < MinTotal \/ Len(pubkeys) < threshold
    THEN Err(AtLeastKeys(threshold))
    ELSE Ok(toBase58Check(
              AddressPayload(Hash160(concatPubkeys(pubkeys)), threshold, Len(pubkeys)),
              <<P2MSHPrefix>>))

\* mutant: the version byte is not looked at
thresholdAndTotalFromAddressAnyPrefix(addr) ==
    LET h == fromBase58Check(addr) IN
    IF ~h.ok THEN Err(InvalidChecksum)
    ELSE LET hash == SubSeq(h.data, 1, HashLen)
             t == ReadVarIntNum(h.data, HashLen + 1)
             n == ReadVarIntNum(h.data, t.next)
         IN Ok([hash |-> hash, threshold |-> t.value, total |-> n.value])

thresholdAndTotalFromAddress(addr) ==
    LET h == fromBase58Check(addr) IN
    IF ~h.ok THEN Err(InvalidChecksum)
    ELSE IF h.prefix[1] # P2MSHPrefix THEN Err(WrongAddressType)
    ELSE LET hash == SubSeq(h.data, 1, HashLen)
             t == ReadVarIntNum(h.data, HashLen + 1)
             n == ReadVarIntNum(h.data, t.next)
         IN Ok([hash |-> hash, threshold |-> t.value, total |-> n.value])

\* mutant: both loops run total times instead of total - 1
LockChunksOffByOne(hash, threshold, total) ==
    Repeat(total, <<OpChunk(OP_CAT)>>)
    \o <<OpChunk(OP_DUP), OpChunk(OP_HASH160), BinChunk(hash),
         OpChunk(OP_EQUALVERIFY), NumberChunk(threshold), OpChunk(OP_SWAP)>>
    \o Repeat(total, <<NumberChunk(PubkeyLen), OpChunk(OP_SPLIT)>>)
    \o <<NumberChunk(total), OpChunk(OP_CHECKMULTISIG)>>

\* mutant: the total written where the threshold belongs
LockChunksTotalForThreshold(hash, threshold, total) ==
    Repeat(total - 1, <<OpChunk(OP_CAT)>>)
    \o <<OpChunk(OP_DUP), OpChunk(OP_HASH160), BinChunk(hash),
         OpChunk(OP_EQUALVERIFY), NumberChunk(total), OpChunk(OP_SWAP)>>
    \o Repeat(total - 1, <<NumberChunk(PubkeyLen), OpChunk(OP_SPLIT)>>)
    \o <<NumberChunk(total), OpChunk(OP_CHECKMULTISIG)>>

\* mutant: the OP_SWAP that brings the key blob above the threshold is missing
LockChunksNoSwap(hash, threshold, total) ==
    Repeat(total - 1, <<OpChunk(OP_CAT)>>)
    \o <<OpChunk(OP_DUP), OpChunk(OP_HASH160), BinChunk(hash),
         OpChunk(OP_EQUALVERIFY), NumberChunk(threshold)>>
    \o Repeat(total - 1, <<NumberChunk(PubkeyLen), OpChunk(OP_SPLIT)>>)
    \o <<NumberChunk(total), OpChunk(OP_CHECKMULTISIG)>>

\* the chunk sequence lock writes for a commitment
LockChunks(hash, threshold, total) ==
    Repeat(total - 1, <<OpChunk(OP_CAT)>>)
    \o <<OpChunk(OP_DUP), OpChunk(OP_HASH160), BinChunk(hash),
         OpChunk(OP_EQUALVERIFY), NumberChunk(threshold), OpChunk(OP_SWAP)>>
    \o Repeat(total - 1, <<NumberChunk(PubkeyLen), OpChunk(OP_SPLIT)>>)
    \o <<NumberChunk(total), OpChunk(OP_CHECKMULTISIG)>>

\* mutant: the checks of the older copy of the template (src/MultiSigPubkeyHash.ts),
\* which has no threshold range check and no limit on the total
lockLegacy(addr, pubkeys, threshold) ==
    LET fromAddr == addr # <<>>
        dec == IF fromAddr THEN thresholdAndTotalFromAddress(addr) ELSE Unset
        total == IF Returned(dec) THEN dec.value.total ELSE Len(pubkeys)
        thr == IF Returned(dec) THEN dec.value.threshold ELSE threshold
    IN IF fromAddr /\ ~dec.ok THEN Err(dec.error)
       ELSE IF ~fromAddr /\ (total < MinTotal \/ total < thr) THEN Err(InsufficientKeys)
       ELSE Ok(LockChunks(IF fromAddr THEN dec.value.hash
                          ELSE Hash160(concatPubkeys(pubkeys)), thr, total))

\* mutant: the threshold decoded from the address does not replace the
\* threshold argument
lockKeepsThresholdArgument(addr, pubkeys, threshold) ==
    LET fromAddr == addr # <<>>
        dec == IF fromAddr THEN thresholdAndTotalFromAddress(addr) ELSE Unset
        total == IF Returned(dec) THEN dec.value.total ELSE Len(pubkeys)
        thr == threshold
    IN IF fromAddr /\ ~dec.ok THEN Err(dec.error)
       ELSE IF ~fromAddr /\ total < MinTotal THEN Err(InsufficientKeys)
       ELSE IF thr = 0 \/ thr < 1 \/ thr > total THEN Err(InvalidThreshold)
       ELSE IF total > MaxTotal THEN Err(TooManyParticipants)
       ELSE Ok(LockChunks(IF fromAddr THEN dec.value.hash
                          ELSE Hash160(concatPubkeys(pubkeys)), thr, total))

\* lock(address?, pubkeys?, threshold): an absent (or empty) address is <<>>,
\* which `if (address)` takes for false
lock(addr, pubkeys, threshold) ==
    LET fromAddr == addr # <<>>
        dec == IF fromAddr THEN thresholdAndTotalFromAddress(addr) ELSE Unset
        total == IF Returned(dec) THEN dec.value.total ELSE Len(pubkeys)
        thr == IF Returned(dec) THEN dec.value.threshold ELSE threshold
    IN IF fromAddr /\ ~dec.ok THEN Err(dec.error)
       ELSE IF ~fromAddr /\ total < MinTotal THEN Err(InsufficientKeys)
       ELSE IF thr = 0 \/ thr < 1 \/ thr > total THEN Err(InvalidThreshold)
       ELSE IF total > MaxTotal THEN Err(TooManyParticipants)
       ELSE Ok(LockChunks(IF fromAddr THEN dec.value.hash
                          ELSE Hash160(concatPubkeys(pubkeys)), thr, total))

(* ------------------------------------------------------------------ *)
(* The spending transaction and the object returned by unlock          *)
(* ------------------------------------------------------------------ *)

\* input.sequence as the 4 little-endian bytes the preimage holds;
\* DefaultSequence is 0xffffffff
DefaultSequence == <<255, 255, 255, 255>>
ZeroSequence == <<0, 0, 0, 0>>

\* no source transaction attached to the input
Detached == [attached |-> FALSE]
\* the source transaction attached to the input: the spent output
Attached(satoshis, lockingScript) ==
    [attached |-> TRUE, satoshis |-> satoshis, lockingScript |-> lockingScript]

\* tx.inputs[inputIndex] of the spending transaction, before any signature
NewInput(hasTXID, source, sequence) ==
    [sourceTXID |-> hasTXID, sourceTransaction |-> source,
     sequence |-> sequence, unlockingScript |-> Absent]

\* unlock(wallet, customInstructions, workingUnlockingScript?, signOutputs,
\*        anyoneCanPay, sourceSatoshis?, lockingScript?): the closure it captures;
\* signed counts the sign calls that returned and asked the signatures
\* requested from the wallet
unlock(wallet, instructions, working, signOutputs, anyoneCanPay, satoshis, lockingScript) ==
    [wallet |-> wallet, pubkeys |-> instructions,
     workingUnlockingScript |-> working,
     signOutputs |-> signOutputs, anyoneCanPay |-> anyoneCanPay,
     sourceSatoshis |-> satoshis, lockingScript |-> lockingScript,
     signed |-> 0, asked |-> 0]

(* ------------------------------------------------------------------ *)
(* estimateLength                                                      *)
(* ------------------------------------------------------------------ *)

\* chunks.map(chunk => chunk.op === OP_EQUALVERIFY).indexOf(true), 0-based, -1 if none
IndexOfEqualVerify(chunks) ==
    LET hits == {k \in 1..Len(chunks) : chunks[k].op = OP_EQUALVERIFY}
    IN IF hits = {} THEN -1
       ELSE (CHOOSE k \in hits : \A m \in hits : k <= m) - 1

\* mutant: the total read from the last chunk instead of the one before it
DecodedTotalLast(chunks) == numberFromScriptChunk(chunks[(Len(chunks) - 1) + 1])

\* decoded from a locking script: chunks[length - 2] and the chunk after
\* the first OP_EQUALVERIFY (0-based positions of the source)
DecodedTotal(chunks) == numberFromScriptChunk(chunks[(Len(chunks) - 2) + 1])
DecodedThreshold(chunks) ==
    numberFromScriptChunk(chunks[(IndexOfEqualVerify(chunks) + 1) + 1])

\* mutant: the formula of the older copy of the template (src/MultiSigPubkeyHash.ts),
\* 73 bytes a signature and the pubkey count left at its default of 2
LengthFormulaLegacy(numberOfSignatures, numberOfPubkeys) ==
    28 + (2 * PubkeyEstimate) + (numberOfSignatures * 73)

LengthFormula(numberOfSignatures, numberOfPubkeys) ==
    StaticLength + (numberOfSignatures * SigEstimate) + (numberOfPubkeys * PubkeyEstimate)

\* reading .data of a chunk the script does not have
ChunkUndefined == "TypeError: Cannot read properties of undefined"

\* mutant: a missing source transaction raises, as it does in sign
estimateLengthStrict(input) ==
    IF ~input.sourceTransaction.attached
    THEN Err("The lockingScript or input sourceTransaction is required for transaction signing.")
    ELSE Ok(LengthFormula(DecodedThreshold(input.sourceTransaction.lockingScript),
                          DecodedTotal(input.sourceTransaction.lockingScript)))

\* estimateLength(tx, inputIndex) on tx.inputs[inputIndex]
estimateLength(input) ==
    IF ~input.sourceTransaction.attached THEN Ok(GuessLength)
    ELSE LET chunks == input.sourceTransaction.lockingScript
         IN IF Len(chunks) < 2 \/ IndexOfEqualVerify(chunks) + 2 > Len(chunks)
            THEN Err(ChunkUndefined)
            ELSE Ok(LengthFormula(DecodedThreshold(chunks), DecodedTotal(chunks)))

\* estimateLength of the older copy of the template (src/MultiSigPubkeyHash.ts):
\* the threshold is read at 5 + (numPubKeys - 1), numberOfPubkeys keeps its
\* initial 2, and the result is 28 + 2 * 34 + numberOfSignatures * 73
legacyEstimateLength(input) ==
    IF ~input.sourceTransaction.attached THEN Ok(GuessLength)
    ELSE LET chunks == input.sourceTransaction.lockingScript
             numPubKeys == (Len(chunks) - 8) \div 3
             thresholdPos == 5 + (numPubKeys - 1)
         IN IF thresholdPos < 0 \/ thresholdPos + 1 > Len(chunks)
            THEN Err(ChunkUndefined)
            ELSE LET n == chunks[thresholdPos + 1]
                     numberOfSignatures == IF ~n.hasData THEN 1 + n.op - OP_1
                                           ELSE LittleEndian(n.data)
                 IN Ok(28 + (2 * 34) + (numberOfSignatures * 73))

\* mutant: the locking script is resolved as sign resolves it, from the
\* captured argument first, and kept
estimateLengthCallUsingClosure(t, input) ==
    LET src == input.sourceTransaction
        ls == IF t.lockingScript.set THEN t.lockingScript
              ELSE IF src.attached THEN Some(src.lockingScript) ELSE Absent
    IN [outcome |-> IF ~ls.set THEN Ok(GuessLength)
                    ELSE Ok(LengthFormula(DecodedThreshold(ls.value),
                                          DecodedTotal(ls.value))),
        closure |-> [t EXCEPT !.lockingScript = ls]]

\* estimateLength(tx, inputIndex) as a method of the object t returned by
\* unlock: what it returns and the closure as the call leaves it; it reads
\* and assigns none of the captured variables
estimateLengthCall(t, input) ==
    [outcome |-> estimateLength(input), closure |-> t]

(* ------------------------------------------------------------------ *)
(* Signatures                                                          *)
(* ------------------------------------------------------------------ *)

\* mutant: signOutputs is not looked at, the scope is always ALL
signatureScopeAlwaysAll(signOutputs, anyoneCanPay) ==
    SIGHASH_FORKID + SIGHASH_ALL
    + (IF anyoneCanPay THEN SIGHASH_ANYONECANPAY ELSE 0)

\* signatureScope: SIGHASH_FORKID or-ed with the flags selected (disjoint bits)
signatureScope(signOutputs, anyoneCanPay) ==
    SIGHASH_FORKID
    + (IF signOutputs = "all" THEN SIGHASH_ALL ELSE 0)
    + (IF signOutputs = "none" THEN SIGHASH_NONE ELSE 0)
    + (IF signOutputs = "single" THEN SIGHASH_SINGLE ELSE 0)
    + (IF anyoneCanPay THEN SIGHASH_ANYONECANPAY ELSE 0)

\* TransactionSignature.format: the fields of the preimage that vary here are
\* the subscript, the source value (little-endian), the input's sequence and
\* the scope; txid, version, outputs and lockTime are the same for all signers
Preimage(sourceSatoshis, inputSequence, scope, subscript) ==
    toBinary(subscript)
    \o <<sourceSatoshis % 256, (sourceSatoshis \div 256) % 256>>
    \o inputSequence \o <<scope>>

\* Hash.hash256(preimage)
Hash256(preimage) == Absorb(preimage, 256)

\* wallet.createSignature by the wallet of signer i over a digest: a DER
\* signature of 70 to 72 bytes, a function of the key and the digest
MinDER == 70
MaxDER == 72
DERLength(i, digest) == MinDER + ((i + digest) % (MaxDER - MinDER + 1))
createSignature(i, digest) ==
    CHOOSE der \in {[j \in 1..DERLength(i, d) |->
                       CASE j = 1 -> 48
                         [] j = 2 -> DERLength(i, d) - 2
                         [] j % 3 = 0 -> (d + i * 13 + j) % 256
                         [] j % 3 = 1 -> ((d \div 256) + i * 13 + j) % 256
                         [] OTHER -> ((d \div 65536) + i * 13 + j) % 256] :
                    d \in {digest}} : TRUE

\* TransactionSignature.toChecksigFormat: the DER bytes and the sighash byte
toChecksigFormat(der, scope) == Append(der, scope)

(* ------------------------------------------------------------------ *)
(* unlock(...).sign                                                    *)
(* ------------------------------------------------------------------ *)

MissingTXID == "The input sourceTXID or sourceTransaction is required for transaction signing."
MissingSatoshis == "The sourceSatoshis or input sourceTransaction is required for transaction signing."
MissingLockingScript == "The lockingScript or input sourceTransaction is required for transaction signing."
WalletFailure == "createSignature failed"

\* mutant: the dummy OP_0 that OP_CHECKMULTISIG pops is not written
InitialScriptNoDummy(pubkeys) ==
    [k \in 1..Len(pubkeys) |-> BinChunk(KeyDER(pubkeys[k]))]

\* [OP_0, pubkey_1 .. pubkey_N] written when no working script was passed
InitialScript(pubkeys) ==
    <<OpChunk(OP_0)>> \o [k \in 1..Len(pubkeys) |-> BinChunk(KeyDER(pubkeys[k]))]

\* mutant: splice(start, 1, item), which overwrites the chunk at start
SpliceOverwriting(chunks, start, item) ==
    LET n == Len(chunks)
        at == IF start < 0 THEN (IF n + start < 0 THEN 0 ELSE n + start)
              ELSE IF start > n THEN n ELSE start
    IN SubSeq(chunks, 1, at) \o <<item>> \o SubSeq(chunks, at + 2, n)

\* Array.prototype.splice(start, 0, item) on a 0-based start
Splice(chunks, start, item) ==
    LET n == Len(chunks)
        at == IF start < 0 THEN (IF n + start < 0 THEN 0 ELSE n + start)
              ELSE IF start > n THEN n ELSE start
    IN SubSeq(chunks, 1, at) \o <<item>> \o SubSeq(chunks, at + 1, n)

\* mutant: the older copy of the template splices every signature at index 1
InsertPositionLegacy(chunks, pubkeys) == 1

\* mutant: the signature chunk stays where writeBin appended it
InsertPositionAppend(chunks, pubkeys) == Len(chunks)

\* position (0-based) at which sign splices the new signature chunk
InsertPosition(chunks, pubkeys) == Len(chunks) - Len(pubkeys)

\* sign of the older copy of the template (src/MultiSigPubkeyHash.ts) puts
\* the signature chunk in with chunks.splice(1, 0, chunkforSig)
legacyInsert(chunks, chunkforSig) == Splice(chunks, 1, chunkforSig)

\* the script the older copy holds after sign calls that produced the
\* signature chunks sigs, in call order, starting from no script
RECURSIVE legacySigned(_, _)
legacySigned(sigs, pubkeys) ==
    IF sigs = <<>> THEN InitialScript(pubkeys)
    ELSE legacyInsert(legacySigned(SubSeq(sigs, 1, Len(sigs) - 1), pubkeys),
                      sigs[Len(sigs)])

\* a falsy optional number: undefined or 0
Falsy(opt) == ~opt.set \/ opt.value = 0

\* inputSequence: input.sequence || 0xffffffff
SignedSequence(input) ==
    IF ~input.sequence.set \/ input.sequence.value = ZeroSequence
    THEN DefaultSequence ELSE input.sequence.value

\* mutant: every call starts again from [OP_0, pubkeys]
WorkingScriptFresh(t) == InitialScript(t.pubkeys)

\* the script a sign call works on: the one the closure holds, or a new
\* [OP_0, pubkeys] when the closure holds none
WorkingScript(t) ==
    IF ~t.workingUnlockingScript.set
    THEN InitialScript(t.pubkeys)
    ELSE t.workingUnlockingScript.value

\* mutant: the signature slot is written before the wallet is asked, and
\* stays in the script when the wallet fails
RequestFailedAfterWrite(t) ==
    [t EXCEPT !.asked = @ + 1,
              !.workingUnlockingScript =
                  Some(Splice(@.value, InsertPosition(@.value, t.pubkeys), BinChunk(<<>>)))]

\* the closure after wallet.createSignature rejected: the request was made
\* and nothing else happened, the lines after the await are not reached
RequestFailed(t) == [t EXCEPT !.asked = @ + 1]

\* sign(tx, inputIndex) of the object t returned by unlock; walletOk tells
\* whether wallet.createSignature answers.  Returns the outcome and the closure
\* as the call leaves it.
sign(t, input, walletOk) ==
    LET working == WorkingScript(t)
        t1 == [t EXCEPT !.workingUnlockingScript = Some(working)]
        scope == signatureScope(t.signOutputs, t.anyoneCanPay)
        src == input.sourceTransaction
        hasTXID == input.sourceTXID \/ src.attached
        sats == IF ~Falsy(t.sourceSatoshis) THEN t.sourceSatoshis
                ELSE IF src.attached THEN Some(src.satoshis) ELSE Absent
        t2 == [t1 EXCEPT !.sourceSatoshis = sats]
        ls == IF t.lockingScript.set THEN t.lockingScript
              ELSE IF src.attached THEN Some(src.lockingScript) ELSE Absent
        t3 == [t2 EXCEPT !.lockingScript = ls]
    IN IF ~hasTXID THEN [outcome |-> Err(MissingTXID), closure |-> t1]
       ELSE IF Falsy(sats) THEN [outcome |-> Err(MissingSatoshis), closure |-> t2]
       ELSE IF ~ls.set THEN [outcome |-> Err(MissingLockingScript), closure |-> t3]
       ELSE IF ~walletOk
       THEN [outcome |-> Err(WalletFailure), closure |-> RequestFailed(t3)]
       ELSE LET digest == Hash256(Preimage(sats.value, SignedSequence(input),
                                           scope, ls.value))
                sigForScript == toChecksigFormat(createSignature(t.wallet, digest), scope)
                script == Splice(working, InsertPosition(working, t.pubkeys),
                                 BinChunk(sigForScript))
            IN [outcome |-> Ok(script),
                closure |-> [t3 EXCEPT !.workingUnlockingScript = Some(script),
                                       !.signed = @ + 1, !.asked = @ + 1]]

(* ------------------------------------------------------------------ *)
(* The script engine the finished pair is handed to (tx.verify)        *)
(* ------------------------------------------------------------------ *)

\* the wallets whose keys a signature may be checked against
Wallets == 1..(MaxTotal + MaxKeysSlack)

\* a stack item read as a number, and as a boolean
StackNumber(item) == LittleEndian(item)
StackTrue(item) == \E k \in 1..Len(item) : item[k] # 0

\* OP_CHECKSIG of one signature against one key for the spent output
CheckSig(sig, key, input) ==
    /\ Len(sig) >= 1
    /\ LET scope == sig[Len(sig)]
           der == SubSeq(sig, 1, Len(sig) - 1)
           src == input.sourceTransaction
           digest == Hash256(Preimage(src.satoshis, input.sequence.value,
                                      scope, src.lockingScript))
       IN /\ (scope \div SIGHASH_FORKID) % 2 = 1
          /\ \E i \in Wallets : KeyDER(i) = key /\ der = createSignature(i, digest)

\* OP_CHECKMULTISIG: signatures must match keys in the same relative order;
\* both lists are walked from the top of the stack
RECURSIVE MatchSigs(_, _, _, _, _)
MatchSigs(sigs, keys, isig, ikey, input) ==
    IF isig = 0 THEN TRUE
    ELSE IF isig > ikey THEN FALSE
    ELSE IF CheckSig(sigs[isig], keys[ikey], input)
    THEN MatchSigs(sigs, keys, isig - 1, ikey - 1, input)
    ELSE MatchSigs(sigs, keys, isig, ikey - 1, input)

Failed == [ok |-> FALSE, stack |-> <<>>]
Pop(stack, n) == SubSeq(stack, 1, Len(stack) - n)
Top(stack, k) == stack[Len(stack) - k]

\* pops N, the N keys, M, the M signatures and the dummy; pushes the verdict
CheckMultiSig(stack, input) ==
    IF Len(stack) < 1 THEN Failed
    ELSE LET n == StackNumber(Top(stack, 0)) IN
    IF n < 0 \/ n > 20 \/ Len(stack) < n + 2 THEN Failed
    ELSE LET keys == SubSeq(stack, Len(stack) - n, Len(stack) - 1)
             m == StackNumber(Top(stack, n + 1)) IN
    IF m < 0 \/ m > n \/ Len(stack) < n + m + 3 THEN Failed
    ELSE LET sigs == SubSeq(stack, Len(stack) - n - 1 - m, Len(stack) - n - 2)
             dummy == Top(stack, n + m + 2) IN
    IF dummy # <<>> THEN Failed
    ELSE [ok |-> TRUE,
          stack |-> Append(Pop(stack, n + m + 3),
                           IF MatchSigs(sigs, keys, m, n, input) THEN <<1>> ELSE <<>>)]

\* one chunk executed on the stack
Step(chunk, stack, input) ==
    LET n == Len(stack) IN
    IF chunk.hasData THEN [ok |-> TRUE, stack |-> Append(stack, chunk.data)]
    ELSE IF chunk.op = OP_0 THEN [ok |-> TRUE, stack |-> Append(stack, <<>>)]
    ELSE IF chunk.op >= OP_1 /\ chunk.op <= OP_16
    THEN [ok |-> TRUE, stack |-> Append(stack, <<chunk.op - OP_1 + 1>>)]
    ELSE IF chunk.op = OP_CAT
    THEN IF n < 2 THEN Failed
         ELSE [ok |-> TRUE, stack |-> Append(Pop(stack, 2), stack[n - 1] \o stack[n])]
    ELSE IF chunk.op = OP_DUP
    THEN IF n < 1 THEN Failed ELSE [ok |-> TRUE, stack |-> Append(stack, stack[n])]
    ELSE IF chunk.op = OP_HASH160
    THEN IF n < 1 THEN Failed
         ELSE [ok |-> TRUE, stack |-> Append(Pop(stack, 1), Hash160(stack[n]))]
    ELSE IF chunk.op = OP_EQUALVERIFY
    THEN IF n < 2 \/ stack[n - 1] # stack[n] THEN Failed
         ELSE [ok |-> TRUE, stack |-> Pop(stack, 2)]
    ELSE IF chunk.op = OP_SWAP
    THEN IF n < 2 THEN Failed
         ELSE [ok |-> TRUE, stack |-> Pop(stack, 2) \o <<stack[n], stack[n - 1]>>]
    ELSE IF chunk.op = OP_SPLIT
    THEN IF n < 2 THEN Failed
         ELSE LET at == StackNumber(stack[n])
                  data == stack[n - 1]
              IN IF at > Len(data) THEN Failed
                 ELSE [ok |-> TRUE,
                       stack |-> Pop(stack, 2)
                                 \o <<SubSeq(data, 1, at), SubSeq(data, at + 1, Len(data))>>]
    ELSE IF chunk.op = OP_CHECKMULTISIG THEN CheckMultiSig(stack, input)
    ELSE Failed

\* chunks lo..hi executed in order (by halves, which keeps the evaluation shallow)
RECURSIVE RunRange(_, _, _, _, _)
RunRange(chunks, lo, hi, stack, input) ==
    IF lo > hi THEN [ok |-> TRUE, stack |-> stack]
    ELSE IF lo = hi THEN Step(chunks[lo], stack, input)
    ELSE LET mid == (lo + hi) \div 2
             r == RunRange(chunks, lo, mid, stack, input)
         IN IF ~r.ok THEN Failed ELSE RunRange(chunks, mid + 1, hi, r.stack, input)

Run(chunks, stack, input) == RunRange(chunks, 1, Len(chunks), stack, input)

\* a push-only script: data pushes and the small-number opcodes
PushOnly(chunks) == \A k \in 1..Len(chunks) : chunks[k].op <= OP_16

\* Spend.validate: the unlocking script, then the locking script, on one stack;
\* the spend is valid if exactly one true item is left
Validate(unlockingScript, input) ==
    /\ PushOnly(unlockingScript)
    /\ LET u == Run(unlockingScript, <<>>, input)
       IN /\ u.ok
          /\ LET l == Run(input.sourceTransaction.lockingScript, u.stack, input)
             IN l.ok /\ Len(l.stack) = 1 /\ StackTrue(l.stack[1])

(* ------------------------------------------------------------------ *)
(* State                                                               *)
(* ------------------------------------------------------------------ *)

VARIABLES
    pubkeys,    \* the ordered key list (wallet numbers) given at setup and
                \* carried by every signer's instructions
    threshold,  \* the threshold asked for at setup
    addr,       \* outcome of address(pubkeys, threshold)
    decoded,    \* outcome of thresholdAndTotalFromAddress(addr)
    locked,     \* outcome of lock
    tx,         \* the spending transaction: [inputs |-> <<input>>] once funded
    tmpl,       \* the object unlock returned to the party holding tx, if any
    estimate,   \* outcome of the last estimateLength call
    outcome,    \* outcome of the last sign call
    signedBy,   \* history: the wallets whose sign calls returned, in call order
    requests,   \* addressBRC29: the getPublicKey request of each counterparty,
                \* "pending", "resolved" or "rejected"; <<>> before the call
    completed,  \* history: the requests in the order they completed
    derived,    \* the pubkeys list addressBRC29 returned, if it returned
    pending     \* the sign calls of tmpl awaiting wallet.createSignature

vars == <<pubkeys, threshold, addr, decoded, locked, tx, tmpl, estimate, outcome, signedBy,
          requests, completed, derived, pending>>

KeyList(n) == [k \in 1..n |-> k]

\* nothing has been built yet; commitments are the <<total, threshold>> pairs
\* the setup may be asked for
InitWith(commitments) ==
    /\ \E c \in commitments : pubkeys = KeyList(c[1]) /\ threshold = c[2]
    /\ addr = Unset
    /\ decoded = Unset
    /\ locked = Unset
    /\ tx = [inputs |-> <<>>]
    /\ tmpl = Absent
    /\ estimate = Unset
    /\ outcome = Unset
    /\ signedBy = <<>>
    /\ requests = <<>>
    /\ completed = <<>>
    /\ derived = Absent
    /\ pending = <<>>

(* ------------------------------------------------------------------ *)
(* Setup: address, lock, the funded output and its spending input      *)
(* ------------------------------------------------------------------ *)

Address ==
    /\ ~addr.set
    /\ addr' = address(pubkeys, threshold)
    /\ UNCHANGED <<pubkeys, threshold, decoded, locked, tx, tmpl, estimate, outcome, signedBy,
                 requests, completed, derived, pending>>

\* mutant: the keys are collected in the order the requests completed
PromiseAllByCompletion(values, order) ==
    [k \in 1..Len(order) |-> values[order[k]]]

\* Promise.all over the per-counterparty promises, all fulfilled: the value of
\* the k-th promise at index k, whatever the order in which they completed
PromiseAll(values, order) ==
    [k \in 1..Len(values) |-> values[k]]

\* addressBRC29 up to its await: counterparties.map starts one async callback
\* per counterparty, each of which calls wallet.getPublicKey and waits
DeriveStart ==
    /\ ~addr.set /\ requests = <<>>
    /\ requests' = [k \in 1..Len(pubkeys) |-> "pending"]
    /\ UNCHANGED <<pubkeys, threshold, addr, decoded, locked, tx, tmpl, estimate, outcome,
                   signedBy, completed, derived, pending>>

\* the wallet answers request k with the key of counterparty k; when it was
\* the last one outstanding, Promise.all fulfils and addressBRC29 goes on to
\* address(pubkeys, threshold) and returns, or rejects with what address threw
Resolve(k) ==
    /\ k \in 1..Len(requests) /\ requests[k] = "pending"
    /\ requests' = [requests EXCEPT ![k] = "resolved"]
    /\ completed' = Append(completed, k)
    /\ IF \A j \in 1..Len(requests) : requests'[j] = "resolved"
       THEN LET keys == PromiseAll(pubkeys, completed')
                a == address(keys, threshold)
            IN /\ addr' = a
               /\ derived' = IF a.ok THEN Some(keys) ELSE Absent
       ELSE UNCHANGED <<addr, derived>>
    /\ UNCHANGED <<pubkeys, threshold, decoded, locked, tx, tmpl, estimate, outcome,
                   signedBy, pending>>

\* the wallet fails request k: Promise.all rejects with the first failure and
\* addressBRC29 with it; the other requests stay outstanding
Reject(k) ==
    /\ k \in 1..Len(requests) /\ requests[k] = "pending"
    /\ requests' = [requests EXCEPT ![k] = "rejected"]
    /\ completed' = Append(completed, k)
    /\ addr' = IF addr.set THEN addr ELSE Err("getPublicKey failed")
    /\ UNCHANGED <<pubkeys, threshold, decoded, locked, tx, tmpl, estimate, outcome,
                   signedBy, derived, pending>>

Decode ==
    /\ Returned(addr) /\ ~decoded.set
    /\ decoded' = thresholdAndTotalFromAddress(addr.value)
    /\ UNCHANGED <<pubkeys, threshold, addr, locked, tx, tmpl, estimate, outcome, signedBy,
                 requests, completed, derived, pending>>

\* new MultiSigPubkeyHash().lock(multiSigAddress)
LockAddress ==
    /\ Returned(addr) /\ ~locked.set
    /\ locked' = lock(addr.value, <<>>, 1)
    /\ UNCHANGED <<pubkeys, threshold, addr, decoded, tx, tmpl, estimate, outcome, signedBy,
                 requests, completed, derived, pending>>

\* the version bytes an address handed to lock or to the decoder may carry:
\* P2PKH, P2SH, testnet P2PKH, and P2MSH with its two neighbours
VersionBytes == {0, 5, 111, 151, 152, 153}
\* what is added to the threshold and the total a foreign address commits to:
\* nothing, or enough to take them across the one-byte varint range
VarIntExtras == {0, 250}

\* an address made elsewhere reaches the caller: the base58check string of a
\* payload under a version byte; the payload is a 20-byte hash alone (as in a
\* P2PKH address) or a hash followed by two varints
ReceiveAddress(prefix, short, extra) ==
    /\ ~addr.set
    /\ short => prefix # P2MSHPrefix
    /\ LET hash == Hash160(concatPubkeys(pubkeys))
       IN addr' = Ok(toBase58Check(
                        IF short THEN hash
                        ELSE AddressPayload(hash, threshold + extra, Len(pubkeys) + extra),
                        <<prefix>>))
    /\ UNCHANGED <<pubkeys, threshold, decoded, locked, tx, tmpl, estimate, outcome, signedBy,
                   requests, completed, derived, pending>>

\* new MultiSigPubkeyHash().lock(undefined, publicKeys, threshold)
LockKeys ==
    /\ ~locked.set
    /\ locked' = lock(<<>>, pubkeys, threshold)
    /\ UNCHANGED <<pubkeys, threshold, addr, decoded, tx, tmpl, estimate, outcome, signedBy,
                 requests, completed, derived, pending>>

\* the older copy of the template (src/MultiSigPubkeyHash.ts):
\* lock(undefined, publicKeys, threshold), which writes the same script and
\* limits neither the total nor, from below, the threshold
LockKeysLegacy ==
    /\ ~locked.set
    /\ locked' = IF Len(pubkeys) < 2 \/ Len(pubkeys) < threshold
                 THEN Err("at least " \o ToString(threshold)
                          \o " pubkeys are required, or use an address")
                 ELSE Ok(LockChunks(Hash160(concatPubkeys(pubkeys)), threshold,
                                    Len(pubkeys)))
    /\ UNCHANGED <<pubkeys, threshold, addr, decoded, tx, tmpl, estimate, outcome, signedBy,
                 requests, completed, derived, pending>>

\* the locking script is written to an output of 1 satoshi and a transaction
\* spending it is built, with the source transaction attached to the input or
\* with the source txid alone
Fund(attach) ==
    /\ Returned(locked) /\ tx.inputs = <<>>
    /\ tx' = [inputs |-> <<IF attach
                           THEN NewInput(FALSE, Attached(1, locked.value), Some(DefaultSequence))
                           ELSE NewInput(TRUE, Detached, Some(DefaultSequence))>>]
    /\ UNCHANGED <<pubkeys, threshold, addr, decoded, locked, tmpl, estimate, outcome, signedBy,
                 requests, completed, derived, pending>>

\* the spending input as a caller may build it: with or without the source
\* txid, with or without the source transaction, whose output holds satoshis
FundWith(hasTXID, attach, satoshis) ==
    /\ Returned(locked) /\ tx.inputs = <<>>
    /\ tx' = [inputs |-> <<NewInput(hasTXID,
                                    IF attach THEN Attached(satoshis, locked.value)
                                    ELSE Detached,
                                    Some(DefaultSequence))>>]
    /\ UNCHANGED <<pubkeys, threshold, addr, decoded, locked, tmpl, estimate, outcome, signedBy,
                   requests, completed, derived, pending>>

\* the spending input built with a sequence number of the caller's choice,
\* or with none
FundSequence(sequence) ==
    /\ Returned(locked) /\ tx.inputs = <<>>
    /\ tx' = [inputs |-> <<NewInput(FALSE, Attached(1, locked.value), sequence)>>]
    /\ UNCHANGED <<pubkeys, threshold, addr, decoded, locked, tmpl, estimate, outcome, signedBy,
                   requests, completed, derived, pending>>

(* ------------------------------------------------------------------ *)
(* The signing rounds                                                  *)
(* ------------------------------------------------------------------ *)

\* the party holding tx makes its template: unlock(wallet_i, instructions,
\* tx.inputs[0].unlockingScript)
Unlock(i) ==
    /\ tx.inputs # <<>> /\ ~tmpl.set
    /\ tmpl' = Some(unlock(i, pubkeys, tx.inputs[1].unlockingScript,
                           "all", FALSE, Absent, Absent))
    /\ UNCHANGED <<pubkeys, threshold, addr, decoded, locked, tx, estimate, outcome, signedBy,
                 requests, completed, derived, pending>>

\* unlock with every optional argument a caller may pass
UnlockWith(i, signOutputs, anyoneCanPay, satoshis, lockingScript) ==
    /\ tx.inputs # <<>> /\ ~tmpl.set
    /\ tmpl' = Some(unlock(i, pubkeys, tx.inputs[1].unlockingScript,
                           signOutputs, anyoneCanPay, satoshis, lockingScript))
    /\ UNCHANGED <<pubkeys, threshold, addr, decoded, locked, tx, estimate, outcome, signedBy,
                   requests, completed, derived, pending>>

\* the key lists a signer's instructions may carry: the committed list, the
\* list with two neighbours exchanged, with one key replaced by a key that is
\* not committed, without its last key, or with one more key
SuppliedKeyLists(keys) ==
    LET n == Len(keys)
        foreign == n + 1
    IN {keys}
       \cup {[k \in 1..n |-> IF k = p THEN keys[p + 1]
                             ELSE IF k = p + 1 THEN keys[p] ELSE keys[k]] : p \in 1..(n - 1)}
       \cup {[keys EXCEPT ![p] = foreign] : p \in 1..n}
       \cup {SubSeq(keys, 1, n - 1), Append(keys, foreign)}

\* unlock by wallet i whose instructions carry the key list instructions
UnlockAs(i, instructions) ==
    /\ tx.inputs # <<>> /\ ~tmpl.set
    /\ tmpl' = Some(unlock(i, instructions, tx.inputs[1].unlockingScript,
                           "all", FALSE, Absent, Absent))
    /\ UNCHANGED <<pubkeys, threshold, addr, decoded, locked, tx, estimate, outcome, signedBy,
                   requests, completed, derived, pending>>

EstimateLength ==
    /\ tmpl.set
    /\ LET r == estimateLengthCall(tmpl.value, tx.inputs[1]) IN
         /\ estimate' = r.outcome
         /\ tmpl' = Some(r.closure)
    /\ UNCHANGED <<pubkeys, threshold, addr, decoded, locked, tx, outcome, signedBy,
                 requests, completed, derived, pending>>

\* tx.sign(): input.unlockingScript = await template.sign(tx, 0); walletOk
\* tells whether the wallet answers the signature request
SignWith(walletOk) ==
    /\ tmpl.set
    /\ LET r == sign(tmpl.value, tx.inputs[1], walletOk) IN
         /\ outcome' = r.outcome
         /\ tmpl' = Some(r.closure)
         /\ IF r.outcome.ok
            THEN /\ tx' = [tx EXCEPT !.inputs[1].unlockingScript = Some(r.outcome.value)]
                 /\ signedBy' = Append(signedBy, tmpl.value.wallet)
            ELSE UNCHANGED <<tx, signedBy>>
    /\ UNCHANGED <<pubkeys, threshold, addr, decoded, locked, estimate,
                 requests, completed, derived, pending>>

Sign == SignWith(TRUE)

\* sign up to its await (lines 119-190): the working script is created if
\* there is none, the signing context is resolved or the call throws, and the
\* signature over the preimage is requested from the wallet; the call then
\* waits, and nothing keeps a second call from starting meanwhile
SignBegin ==
    /\ tmpl.set
    /\ LET t == tmpl.value
           input == tx.inputs[1]
           r == sign(t, input, FALSE)
       IN /\ tmpl' = Some(r.closure)
          /\ IF r.outcome.error = WalletFailure
             THEN LET scope == signatureScope(t.signOutputs, t.anyoneCanPay)
                      digest == Hash256(Preimage(r.closure.sourceSatoshis.value,
                                                 SignedSequence(input), scope,
                                                 r.closure.lockingScript.value))
                  IN /\ pending' = Append(pending, [wallet |-> t.wallet, scope |-> scope,
                                                     digest |-> digest])
                     /\ UNCHANGED outcome
             ELSE outcome' = r.outcome /\ UNCHANGED pending
    /\ UNCHANGED <<pubkeys, threshold, addr, decoded, locked, tx, estimate, signedBy,
                   requests, completed, derived>>

\* the wallet answers the p-th waiting call, which goes on (lines 192-200):
\* the signature chunk is spliced into the working script as it is now, and
\* Transaction.sign stores the returned script in the input
SignEnd(p) ==
    /\ tmpl.set /\ p \in 1..Len(pending)
    /\ LET t == tmpl.value
           call == pending[p]
           working == t.workingUnlockingScript.value
           sigForScript == toChecksigFormat(createSignature(call.wallet, call.digest),
                                            call.scope)
           script == Splice(working, InsertPosition(working, t.pubkeys),
                            BinChunk(sigForScript))
       IN /\ tmpl' = Some([t EXCEPT !.workingUnlockingScript = Some(script),
                                    !.signed = @ + 1])
          /\ outcome' = Ok(script)
          /\ tx' = [tx EXCEPT !.inputs[1].unlockingScript = Some(script)]
          /\ signedBy' = Append(signedBy, call.wallet)
    /\ pending' = SubSeq(pending, 1, p - 1) \o SubSeq(pending, p + 1, Len(pending))
    /\ UNCHANGED <<pubkeys, threshold, addr, decoded, locked, estimate,
                   requests, completed, derived>>

\* the caller drops the source transaction from the input and keeps its txid
\* (input.sourceTXID = id; input.sourceTransaction = undefined); the object
\* unlock returned is not told
Detach ==
    /\ tx.inputs # <<>> /\ tx.inputs[1].sourceTransaction.attached
    /\ tx' = [tx EXCEPT !.inputs[1].sourceTransaction = Detached,
                        !.inputs[1].sourceTXID = TRUE]
    /\ UNCHANGED <<pubkeys, threshold, addr, decoded, locked, tmpl, estimate, outcome, signedBy,
                   requests, completed, derived, pending>>

\* Transaction.fromAtomicBEEF(tx.toAtomicBEEF()): scripts travel as bytes, the
\* source transaction travels with the input, the template does not
Deserialized(input) ==
    [sourceTXID |-> TRUE,
     sourceTransaction |->
        IF input.sourceTransaction.attached
        THEN Attached(input.sourceTransaction.satoshis,
                      fromBinary(toBinary(input.sourceTransaction.lockingScript)))
        ELSE Detached,
     sequence |-> input.sequence,
     unlockingScript |->
        IF input.unlockingScript.set
        THEN Some(fromBinary(toBinary(input.unlockingScript.value)))
        ELSE Absent]

HandOff ==
    /\ tmpl.set /\ tmpl.value.signed > 0
    /\ tx' = [inputs |-> <<Deserialized(tx.inputs[1])>>]
    /\ tmpl' = Absent
    /\ UNCHANGED <<pubkeys, threshold, addr, decoded, locked, estimate, outcome, signedBy,
                 requests, completed, derived, pending>>

(* ------------------------------------------------------------------ *)
(* Specifications                                                      *)
(* ------------------------------------------------------------------ *)

ValidCommitments(maxTotal) ==
    {c \in (MinTotal..maxTotal) \X (1..maxTotal) : c[2] <= c[1]}
OfferedCommitments(maxTotal) ==
    {c \in (1..maxTotal) \X (0..(maxTotal + 1)) : c[2] <= c[1] + 1}

\* signers sign in any order and any number of times
Init == InitWith(ValidCommitments(MaxFreeKeys))

Next ==
    \/ Address
    \/ LockAddress
    \/ \E attach \in BOOLEAN : Fund(attach)
    \/ \E i \in 1..Len(pubkeys) : Unlock(i)
    \/ EstimateLength
    \/ (Len(signedBy) < MaxSignCalls /\ Sign)
    \/ HandOff

Spec == Init /\ [][Next]_vars

\* the protocol as the callers are asked to run it: the fee is estimated
\* before the first signature, each signer signs once, in ascending key
\* order, and the transaction is handed on until threshold signatures are in
LastSigner == IF signedBy = <<>> THEN 0 ELSE signedBy[Len(signedBy)]

InitOrdered == InitWith(ValidCommitments(MaxTotal))

NextOrdered ==
    \/ Address
    \/ LockAddress
    \/ Fund(TRUE)
    \/ \E i \in (LastSigner + 1)..Len(pubkeys) :
          Len(signedBy) < threshold /\ Unlock(i)
    \/ (signedBy = <<>> /\ ~estimate.set /\ EstimateLength)
    \/ (estimate.set /\ tmpl.set /\ tmpl.value.signed = 0 /\ Sign)
    \/ HandOff

SpecOrdered == InitOrdered /\ [][NextOrdered]_vars

\* the address codec, the script builder and the length estimator on every
\* key list and threshold a caller may offer, valid or not
InitCodec == InitWith(OfferedCommitments(MaxTotal + MaxKeysSlack))

NextCodec ==
    \/ Address
    \/ Decode
    \/ LockAddress
    \/ LockKeys
    \/ \E attach \in BOOLEAN : Fund(attach)
    \/ Unlock(1)
    \/ EstimateLength

SpecCodec == InitCodec /\ [][NextCodec]_vars

\* sign under every signing context and every scope a caller may configure
SignOutputs == {"all", "none", "single"}
SourceValues == {0, 1}
InitCaller == InitWith(ValidCommitments(MaxCallerKeys))

NextCaller ==
    \/ Address
    \/ LockAddress
    \/ \E hasTXID \in BOOLEAN : \E attach \in BOOLEAN : \E satoshis \in SourceValues :
          FundWith(hasTXID, attach, satoshis)
    \/ \E i \in 1..Len(pubkeys) : \E signOutputs \in SignOutputs :
       \E anyoneCanPay \in BOOLEAN :
       \E satoshis \in {Absent} \cup {Some(v) : v \in SourceValues} :
       \E lockingScript \in {Absent} \cup (IF Returned(locked) THEN {Some(locked.value)} ELSE {}) :
          UnlockWith(i, signOutputs, anyoneCanPay, satoshis, lockingScript)
    \/ \E walletOk \in BOOLEAN :
          tmpl.set /\ tmpl.value.asked < MaxCallerCalls /\ SignWith(walletOk)

SpecCaller == InitCaller /\ [][NextCaller]_vars

\* signers whose instructions may not carry the committed key list
InitSupplied == InitWith(ValidCommitments(MaxSuppliedKeys))

NextSupplied ==
    \/ Address
    \/ LockAddress
    \/ Fund(TRUE)
    \/ \E i \in 1..Len(pubkeys) : \E instructions \in SuppliedKeyLists(pubkeys) :
          UnlockAs(i, instructions)
    \/ (Len(signedBy) < MaxSuppliedCalls /\ Sign)
    \/ HandOff

SpecSupplied == InitSupplied /\ [][NextSupplied]_vars

\* addressBRC29 with its key requests answered in any order, or failing
InitDerive == InitWith(OfferedCommitments(MaxDerivedKeys))

NextDerive ==
    \/ DeriveStart
    \/ \E k \in 1..Len(pubkeys) : Resolve(k)
    \/ \E k \in 1..Len(pubkeys) : Reject(k)
    \/ Decode
    \/ LockAddress

SpecDerive == InitDerive /\ [][NextDerive]_vars

\* sign as the asynchronous call it is: calls start and finish separately
InitAsync == InitWith(ValidCommitments(MaxAsyncKeys))

NextAsync ==
    \/ Address
    \/ LockAddress
    \/ \E attach \in BOOLEAN : Fund(attach)
    \/ \E i \in 1..Len(pubkeys) : Unlock(i)
    \/ (Len(signedBy) + Len(pending) < MaxAsyncCalls /\ SignBegin)
    \/ \E p \in 1..Len(pending) : SignEnd(p)
    \/ (pending = <<>> /\ HandOff)

SpecAsync == InitAsync /\ [][NextAsync]_vars

\* rounds in which the wallet may fail and the signing context may be missing
InitFaulty == InitWith(ValidCommitments(MaxFaultyKeys))

NextFaulty ==
    \/ Address
    \/ LockAddress
    \/ \E attach \in BOOLEAN : FundWith(TRUE, attach, 1)
    \/ \E i \in 1..Len(pubkeys) :
       \E satoshis \in {Absent, Some(1)} :
       \E lockingScript \in {Absent} \cup (IF Returned(locked) THEN {Some(locked.value)} ELSE {}) :
          UnlockWith(i, "all", FALSE, satoshis, lockingScript)
    \/ \E walletOk \in BOOLEAN :
          /\ tmpl.set /\ tmpl.value.asked < MaxFaultyCalls
          /\ Len(signedBy) < MaxFaultyCalls
          /\ SignWith(walletOk)
    \/ HandOff

SpecFaulty == InitFaulty /\ [][NextFaulty]_vars

\* the protocol run to its end: threshold signers, chosen in ascending key
\* order so that enough later keys remain, each unlock, sign and hand on;
\* every step that can be taken is eventually taken
NextSigner ==
    \E i \in (LastSigner + 1)..(Len(pubkeys) - (threshold - Len(signedBy) - 1)) :
       Len(signedBy) < threshold /\ Unlock(i)
SignOnce == tmpl.set /\ tmpl.value.signed = 0 /\ Sign

NextLive ==
    \/ Address
    \/ LockAddress
    \/ Fund(TRUE)
    \/ NextSigner
    \/ SignOnce
    \/ HandOff

InitLive == InitWith(ValidCommitments(MaxLiveKeys))

\* the setup is carried out, and a party that holds the transaction and can
\* make its template, sign or hand on eventually does so
SpecLive ==
    /\ InitLive /\ [][NextLive]_vars
    /\ WF_vars(Address) /\ WF_vars(LockAddress) /\ WF_vars(Fund(TRUE))
    /\ WF_vars(NextSigner) /\ WF_vars(SignOnce) /\ WF_vars(HandOff)

\* estimateLength reading the numbers of locking scripts of up to
\* MaxScriptKeys keys, written by the older copy of the template, which has
\* no limit of 10: totals and thresholds above 16 are written as data pushes
InitNumber == InitWith(ValidCommitments(MaxScriptKeys))

NextNumber ==
    \/ LockKeysLegacy
    \/ Fund(TRUE)
    \/ Unlock(1)
    \/ EstimateLength

SpecNumber == InitNumber /\ [][NextNumber]_vars

\* signing inputs of every kind of sequence number: none, 0, 1, the largest
\* non-final value and the final 0xffffffff
Sequences ==
    {Absent, Some(ZeroSequence), Some(<<1, 0, 0, 0>>), Some(<<254, 255, 255, 255>>),
     Some(DefaultSequence)}
InitSequence == InitWith(ValidCommitments(MaxSequenceKeys))

NextSequence ==
    \/ Address
    \/ LockAddress
    \/ \E sequence \in Sequences : FundSequence(sequence)
    \/ \E i \in 1..Len(pubkeys) : Unlock(i)
    \/ (Len(signedBy) < MaxSequenceCalls /\ Sign)
    \/ HandOff

SpecSequence == InitSequence /\ [][NextSequence]_vars

\* one object returned by unlock asked to sign again and again, while the
\* caller may drop the source transaction from the input
InitClosure == InitWith(ValidCommitments(MaxClosureKeys))

NextClosure ==
    \/ Address
    \/ LockAddress
    \/ Fund(TRUE)
    \/ \E i \in 1..Len(pubkeys) : Unlock(i)
    \/ (Len(signedBy) < MaxClosureCalls /\ Sign)
    \/ Detach
    \/ HandOff

SpecClosure == InitClosure /\ [][NextClosure]_vars

\* estimating and signing in any order, with and without a source
\* transaction on the input, with and without the source value and the
\* locking script passed to unlock
InitEstimate == InitWith(ValidCommitments(MaxEstimateKeys))

NextEstimate ==
    \/ Address
    \/ LockAddress
    \/ \E attach \in BOOLEAN : FundWith(TRUE, attach, 1)
    \/ \E i \in 1..Len(pubkeys) : \E satoshis \in {Absent, Some(1)} :
       \E lockingScript \in {Absent} \cup (IF Returned(locked) THEN {Some(locked.value)} ELSE {}) :
          UnlockWith(i, "all", FALSE, satoshis, lockingScript)
    \/ EstimateLength
    \/ (Len(signedBy) < MaxEstimateCalls /\ Sign)

SpecEstimate == InitEstimate /\ [][NextEstimate]_vars

\* the decoder and lock on addresses made elsewhere, of any version byte
InitForeign == InitWith(OfferedCommitments(MaxForeignKeys))

NextForeign ==
    \/ \E prefix \in VersionBytes : \E short \in BOOLEAN : \E extra \in VarIntExtras :
          ReceiveAddress(prefix, short, extra)
    \/ Decode
    \/ LockAddress

SpecForeign == InitForeign /\ [][NextForeign]_vars

(* ------------------------------------------------------------------ *)
(* Properties                                                          *)
(* ------------------------------------------------------------------ *)

Total == Len(pubkeys)
ValidCommitment ==
    Total >= MinTotal /\ Total <= MaxTotal /\ threshold >= 1 /\ threshold <= Total
Funded == tx.inputs # <<>>
SourceAttached == Funded /\ tx.inputs[1].sourceTransaction.attached
HasScript == Funded /\ tx.inputs[1].unlockingScript.set
UnlockingScript == tx.inputs[1].unlockingScript.value
\* the finished pair verifies at the script engine
Verifies == SourceAttached /\ HasScript /\ Validate(UnlockingScript, tx.inputs[1])
\* the transaction has been through a serialize/deserialize hand-off
HandedOff == Funded /\ tx.inputs[1].sourceTXID /\ SourceAttached
Ascending(seq) == \A k \in 1..(Len(seq) - 1) : seq[k] < seq[k + 1]

\* C1: M signers of an M-of-N output (2 <= N <= 10, 1 <= M <= N) who sign in
\* ascending key order, the first from no prior script and each later one
\* from the script handed on, produce an unlocking script that verifies
\* against the locking script built by lock for the same keys and threshold.
C1_AscendingSignersVerify ==
    (Len(signedBy) = threshold /\ Ascending(signedBy)) => Verifies

C1_Witness ==
    /\ Total = 5 /\ threshold = 3 /\ signedBy = <<2, 4, 5>>
    /\ HandedOff /\ Verifies

\* C2: with the source transaction attached no sign call raises, whatever the
\* order of the signers; and when M >= 2 signers have signed in an order that
\* is not ascending in key index, the resulting script fails verification.
C2_OutOfOrderFailsVerification ==
    SourceAttached =>
        /\ outcome.set => outcome.ok
        /\ (threshold >= 2 /\ Len(signedBy) = threshold /\ ~Ascending(signedBy))
              => (HasScript /\ ~Verifies)

C2_Witness ==
    /\ Total = 3 /\ threshold = 2 /\ signedBy = <<2, 1>>
    /\ Returned(outcome) /\ HasScript /\ ~Verifies

\* the signature wallet i places in the script for the funded output
\* (scope ALL | FORKID = 0x41, 1 satoshi, default sequence)
ExpectedSig(i, lockingScript) ==
    Append(createSignature(i, Hash256(Preimage(1, DefaultSequence, 65, lockingScript))), 65)

\* [OP_0, sig_1 .. sig_k, pubkey_1 .. pubkey_N] for the signers in call order
Layout(signers, keys, lockingScript) ==
    <<[op |-> 0, hasData |-> FALSE, data |-> <<>>]>>
    \o [j \in 1..Len(signers) |->
          LET sig == ExpectedSig(signers[j], lockingScript)
          IN [op |-> Len(sig), hasData |-> TRUE, data |-> sig]]
    \o [k \in 1..Len(keys) |->
          [op |-> 33, hasData |-> TRUE, data |-> KeyDER(keys[k])]]

\* C3: after k >= 1 sign calls that started from no prior script the chunks
\* are exactly [OP_0, sig_1 .. sig_k, pubkey_1 .. pubkey_N], sig_j being the
\* signature of the j-th call; each call inserts one chunk at index 1 + (number
\* of prior signatures) and leaves every other chunk as it was, in order.
C3_WorkingScriptLayout ==
    [][(tx'.inputs # <<>> /\ tx'.inputs[1].unlockingScript.set) =>
        LET new == tx'.inputs[1].unlockingScript.value
            k == Len(signedBy)
            old == IF HasScript THEN UnlockingScript ELSE Layout(<<>>, pubkeys, <<>>)
        IN /\ new = Layout(signedBy', pubkeys, tx'.inputs[1].sourceTransaction.lockingScript)
           /\ signedBy' # signedBy =>
                /\ Len(signedBy') = k + 1
                /\ Len(new) = Len(old) + 1
                /\ SubSeq(new, 1, 1 + k) = SubSeq(old, 1, 1 + k)
                /\ new[2 + k].data =
                     ExpectedSig(signedBy'[k + 1], tx.inputs[1].sourceTransaction.lockingScript)
                /\ SubSeq(new, 3 + k, Len(new)) = SubSeq(old, 2 + k, Len(old))
      ]_vars

C3_Witness ==
    /\ Total = 3 /\ signedBy = <<3, 1, 3>> /\ HasScript
    /\ Len(UnlockingScript) = 1 + 3 + 3
    /\ UnlockingScript[4].data =
          ExpectedSig(3, tx.inputs[1].sourceTransaction.lockingScript)
    /\ UnlockingScript[3].data =
          ExpectedSig(1, tx.inputs[1].sourceTransaction.lockingScript)

\* the chunk sequence of section 4.3 for hash, M and N, chunk by chunk
ExpectedLock(hash, m, n) ==
    [k \in 1..(3 * n + 5) |->
        IF k <= n - 1 THEN [op |-> 126, hasData |-> FALSE, data |-> <<>>]
        ELSE IF k = n THEN [op |-> 118, hasData |-> FALSE, data |-> <<>>]
        ELSE IF k = n + 1 THEN [op |-> 169, hasData |-> FALSE, data |-> <<>>]
        ELSE IF k = n + 2 THEN [op |-> 20, hasData |-> TRUE, data |-> hash]
        ELSE IF k = n + 3 THEN [op |-> 136, hasData |-> FALSE, data |-> <<>>]
        ELSE IF k = n + 4 THEN [op |-> 80 + m, hasData |-> FALSE, data |-> <<>>]
        ELSE IF k = n + 5 THEN [op |-> 124, hasData |-> FALSE, data |-> <<>>]
        ELSE IF k = 3 * n + 4 THEN [op |-> 80 + n, hasData |-> FALSE, data |-> <<>>]
        ELSE IF k = 3 * n + 5 THEN [op |-> 174, hasData |-> FALSE, data |-> <<>>]
        ELSE IF (k - (n + 6)) % 2 = 0 THEN [op |-> 1, hasData |-> TRUE, data |-> <<33>>]
        ELSE [op |-> 127, hasData |-> FALSE, data |-> <<>>]]

\* C4: for 2 <= N <= 10 and 1 <= M <= N lock returns exactly: OP_CAT N-1 times,
\* OP_DUP, OP_HASH160, push of the 20-byte hash, OP_EQUALVERIFY, OP_M, OP_SWAP,
\* [push(33), OP_SPLIT] N-1 times, OP_N, OP_CHECKMULTISIG: 3N + 5 chunks.
C4_LockLayout ==
    (locked.set /\ ValidCommitment) =>
        /\ Returned(locked)
        /\ Len(locked.value) = 3 * Total + 5
        /\ Len(locked.value[Total + 2].data) = 20
        /\ locked.value = ExpectedLock(Hash160(concatPubkeys(pubkeys)), threshold, Total)

C4_Witness ==
    /\ Total = 10 /\ threshold = 10 /\ Returned(locked)
    /\ Len(locked.value) = 35
    /\ locked.value[14].op = 90 /\ locked.value[34].op = 90

\* C5: for 2 <= N <= 10 and 1 <= M <= N the address is returned and decodes to
\* {hash = HASH160(keys concatenated in list order), threshold = M, total = N};
\* the decoding step changes nothing but its own result.
C5_AddressRoundTrip ==
    [][(decoded'.set /\ ValidCommitment) =>
          /\ Returned(addr')
          /\ Returned(decoded')
          /\ decoded'.value = [hash |-> Hash160(concatPubkeys(pubkeys)),
                               threshold |-> threshold, total |-> Total]
          /\ decoded' # decoded =>
                UNCHANGED <<pubkeys, threshold, addr, locked, tx, tmpl,
                            estimate, outcome, signedBy,
                 requests, completed, derived, pending>>
      ]_vars

C5_Witness ==
    /\ Total = 10 /\ threshold = 7 /\ Returned(addr) /\ Returned(decoded)
    /\ decoded.value.threshold = 7 /\ decoded.value.total = 10

\* C6: reading the chunk after the first OP_EQUALVERIFY and the chunk before
\* the trailing OP_CHECKMULTISIG of lock's output, as estimateLength does,
\* recovers the threshold and total that lock accepted.
C6_CommitmentRoundTrip ==
    Returned(locked) =>
        /\ locked.value[Len(locked.value)].op = 174
        /\ DecodedThreshold(locked.value) = threshold
        /\ DecodedTotal(locked.value) = Total

C6_Witness ==
    /\ Total = 10 /\ threshold = 3 /\ Returned(locked)
    /\ DecodedThreshold(locked.value) = 3 /\ DecodedTotal(locked.value) = 10

\* C7: the estimate taken on the freshly built, unsigned input is at least the
\* byte length of the fully signed unlocking script of the same (N, M).
C7_EstimateCoversSignedScript ==
    (Len(signedBy) = threshold /\ HasScript /\ estimate.set) =>
        /\ Returned(estimate)
        /\ estimate.value >= Len(toBinary(UnlockingScript))

C7_Witness ==
    /\ Total = 10 /\ Len(signedBy) = 10 /\ HasScript /\ Returned(estimate)
    /\ Len(toBinary(UnlockingScript)) > 1060
    /\ estimate.value >= Len(toBinary(UnlockingScript))

\* C8: with the spent output's locking script available estimateLength returns
\* 1 + threshold * 74 + total * 34; for 2 keys and threshold 1 that is 143.
C8_EstimateFormula ==
    (SourceAttached /\ estimate.set) =>
        /\ Returned(estimate)
        /\ estimate.value = 1 + threshold * 74 + Total * 34
        /\ (Total = 2 /\ threshold = 1) => estimate.value = 143

C8_Witness ==
    /\ Total = 2 /\ threshold = 1 /\ SourceAttached
    /\ Returned(estimate) /\ estimate.value = 143

\* C9: with no source transaction attached to the input estimateLength does
\* not raise: it returns the fixed placeholder 1000.
C9_EstimateFailsSoft ==
    (Funded /\ ~SourceAttached /\ estimate.set) =>
        (Returned(estimate) /\ estimate.value = 1000)

C9_Witness ==
    /\ Funded /\ ~SourceAttached /\ Total = 3
    /\ Returned(estimate) /\ estimate.value = 1000

\* C10: the placeholder returned without a source transaction is at least the
\* formula estimate 1 + 74 * M + 34 * N of every valid (N, M).
C10_PlaceholderConservative ==
    (Funded /\ ~SourceAttached /\ Returned(estimate) /\ ValidCommitment) =>
        estimate.value >= 1 + 74 * threshold + 34 * Total


\* C11: lock called with a key list and no address returns no script on the
\* boundary inputs: 1 key fails with 'at least 2 pubkeys are required';
\* threshold 0 or total + 1 with 2 <= total <= 10 fails with 'threshold must be
\* between 1 and the number of pubkeys'; 11 keys with a threshold in 1..11
\* fail with 'total must be less than or equal to 10'.
C11_LockRejectsBoundaryInputs ==
    (locked.set /\ ~addr.set) =>
        /\ Total = 1 =>
              (~Returned(locked) /\ locked.error = "at least 2 pubkeys are required")
        /\ (Total >= 2 /\ Total <= 10 /\ (threshold = 0 \/ threshold = Total + 1)) =>
              (~Returned(locked)
               /\ locked.error = "threshold must be between 1 and the number of pubkeys")
        /\ (Total = 11 /\ threshold >= 1 /\ threshold <= 11) =>
              (~Returned(locked)
               /\ locked.error = "total must be less than or equal to 10")

C11_Witness ==
    /\ Total = 11 /\ threshold = 3 /\ ~addr.set /\ locked.set
    /\ ~locked.ok /\ locked.error = "total must be less than or equal to 10"


\* the errors the specification calls InsufficientKeys
IsInsufficientKeys(e) ==
    \E k \in 1..(MaxTotal + MaxKeysSlack + 1) :
        e = "at least " \o ToString(k) \o " pubkeys are required"

\* C12: address (reached through addressBRC29) returns an address only when
\* total >= 2 and 1 <= threshold <= total; otherwise it fails, with
\* InvalidThreshold when threshold < 1 and with InsufficientKeys when total < 2
\* or total < threshold (2 keys with threshold 3 fail with InsufficientKeys).
C12_AddressRejections ==
    addr.set =>
        /\ Returned(addr) <=> (Total >= 2 /\ threshold >= 1 /\ threshold <= Total)
        /\ threshold < 1 =>
              (~Returned(addr)
               /\ addr.error = "threshold must be between 1 and the number of pubkeys")
        /\ (threshold >= 1 /\ (Total < 2 \/ Total < threshold)) =>
              (~Returned(addr) /\ IsInsufficientKeys(addr.error))


\* a varint read from a byte string at a 1-based position
VarIntAt(bytes, pos) ==
    IF bytes[pos] < 253 THEN bytes[pos] ELSE bytes[pos + 1] + 256 * bytes[pos + 2]
VarIntSize(bytes, pos) == IF bytes[pos] < 253 THEN 1 ELSE 3
\* the version byte and the payload of the base58check string in addr
AddrPrefix == addr.value[1]
AddrPayload == SubSeq(addr.value, 2, Len(addr.value) - 4)

\* C13: for an address whose version byte is not 0x98 the decoder fails with
\* 'only P2MSH is supported, set your prefix byte to 0x98' and so does
\* lock(address), which returns no script; for a 0x98 address the decoder
\* returns the first 20 payload bytes as the hash and the two varints that
\* follow as threshold and total.
C13_WrongAddressType ==
    Returned(addr) =>
        /\ (AddrPrefix # 152 /\ decoded.set) =>
              (~Returned(decoded)
               /\ decoded.error = "only P2MSH is supported, set your prefix byte to 0x98")
        /\ (AddrPrefix # 152 /\ locked.set) =>
              (~Returned(locked)
               /\ locked.error = "only P2MSH is supported, set your prefix byte to 0x98")
        /\ (AddrPrefix = 152 /\ decoded.set) =>
              /\ Returned(decoded)
              /\ decoded.value.hash = SubSeq(AddrPayload, 1, 20)
              /\ decoded.value.threshold = VarIntAt(AddrPayload, 21)
              /\ decoded.value.total =
                    VarIntAt(AddrPayload, 21 + VarIntSize(AddrPayload, 21))
              /\ decoded.value.threshold \in {threshold, threshold + 250}
              /\ decoded.value.total \in {Total, Total + 250}

C13_Witness ==
    /\ Returned(addr) /\ AddrPrefix = 0 /\ Len(AddrPayload) = 20
    /\ decoded.set /\ ~decoded.ok /\ locked.set /\ ~locked.ok
    /\ locked.error = "only P2MSH is supported, set your prefix byte to 0x98"

C13_WitnessDecoded ==
    /\ Returned(addr) /\ AddrPrefix = 152 /\ Returned(decoded)
    /\ decoded.value.threshold = 253 /\ decoded.value.total = 252


\* C14: a commitment decoded from an address that address returned satisfies
\* 1 <= threshold <= total <= 10.
C14_CommitmentInvariant ==
    (Returned(addr) /\ Returned(decoded)) =>
        /\ 1 <= decoded.value.threshold
        /\ decoded.value.threshold <= decoded.value.total
        /\ decoded.value.total <= 10


\* a step of sign on the template held
SignStep == tmpl.set /\ tmpl'.set /\ <<outcome, tmpl>>' # <<outcome, tmpl>>
IsMissingSigningContext(e) ==
    e \in {"The input sourceTXID or sourceTransaction is required for transaction signing.",
           "The sourceSatoshis or input sourceTransaction is required for transaction signing.",
           "The lockingScript or input sourceTransaction is required for transaction signing."}

\* C15: sign fails with MissingSigningContext, and asks the wallet for no
\* signature, whenever the source txid, the source value or the source locking
\* script is given neither explicitly nor by an attached source transaction;
\* when all three are given by either route it does not raise this error.
C15_MissingSigningContext ==
    [][SignStep =>
        LET t == tmpl.value
            input == tx.inputs[1]
            attached == input.sourceTransaction.attached
            resolvable == /\ (input.sourceTXID \/ attached)
                          /\ (t.sourceSatoshis.set \/ attached)
                          /\ (t.lockingScript.set \/ attached)
            missing == ~outcome'.ok /\ IsMissingSigningContext(outcome'.error)
        IN /\ ~resolvable => (missing /\ tmpl'.value.asked = t.asked)
           /\ resolvable => ~missing
      ]_vars


\* the signatures in the unlocking script: the chunks between OP_0 and the keys
SigCount == Len(UnlockingScript) - 1 - Total

\* C16: sign returns a script whatever the number of signatures already in
\* it; a script with k signatures verifies against an M-of-N locking script
\* only if k = M, and with fewer than M it fails; for 2 keys and threshold 1 a
\* script with one signature, of either signer, verifies and one with the
\* signatures of both signers does not.
C16_NoCountEnforcement ==
    (SourceAttached /\ outcome.set) =>
        /\ Returned(outcome) /\ HasScript
        /\ SigCount = Len(signedBy)
        /\ Verifies => SigCount = threshold
        /\ SigCount < threshold => ~Verifies
        /\ (Total = 2 /\ threshold = 1 /\ signedBy \in {<<1>>, <<2>>}) => Verifies
        /\ (Total = 2 /\ threshold = 1 /\ signedBy \in {<<1, 2>>, <<2, 1>>}) => ~Verifies

C16_Witness ==
    /\ Total = 2 /\ threshold = 1 /\ signedBy = <<1, 2>>
    /\ Returned(outcome) /\ HasScript /\ SigCount = 2 /\ ~Verifies

C16_WitnessOne ==
    /\ Total = 2 /\ threshold = 1 /\ signedBy = <<2>> /\ SigCount = 1 /\ Verifies


\* the sighash byte of the j-th signature of a script, and its DER part
SigChunk(script, j) == script[1 + j].data
SighashByte(script, j) == SigChunk(script, j)[Len(SigChunk(script, j))]
DERPart(script, j) == SubSeq(SigChunk(script, j), 1, Len(SigChunk(script, j)) - 1)

\* C17: the scope sign uses is SIGHASH_FORKID with exactly one of ALL, NONE,
\* SINGLE as signOutputs says, and ANYONECANPAY only if anyoneCanPay is true
\* (0x41 with the default arguments); the sighash byte that ends the signature
\* in the script is the scope under which the signed preimage was computed.
C17_SignatureScope ==
    (tmpl.set /\ tmpl.value.signed > 0) =>
        LET t == tmpl.value
            script == t.workingUnlockingScript.value
            base == CASE t.signOutputs = "all" -> 1
                      [] t.signOutputs = "none" -> 2
                      [] t.signOutputs = "single" -> 3
        IN \A j \in 1..t.signed :
             LET byte == SighashByte(script, j) IN
             /\ byte = 64 + base + (IF t.anyoneCanPay THEN 128 ELSE 0)
             /\ (byte \div 64) % 2 = 1
             /\ byte % 32 \in {1, 2, 3}
             /\ (byte >= 128) <=> t.anyoneCanPay
             /\ (t.signOutputs = "all" /\ ~t.anyoneCanPay) => byte = 65
             /\ DERPart(script, j) =
                   createSignature(t.wallet,
                       Hash256(Preimage(t.sourceSatoshis.value, DefaultSequence,
                                        byte, t.lockingScript.value)))

C17_Witness ==
    /\ tmpl.set /\ tmpl.value.signed = 2
    /\ tmpl.value.signOutputs = "single" /\ tmpl.value.anyoneCanPay
    /\ SighashByte(tmpl.value.workingUnlockingScript.value, 1) = 195
    /\ SighashByte(tmpl.value.workingUnlockingScript.value, 2) = 195


\* the stack the unlocking script leaves, and the locking script run on it up
\* to and including its chunk number upto
UnlockedStack == Run(UnlockingScript, <<>>, tx.inputs[1])
LockedUpTo(upto) ==
    Run(SubSeq(tx.inputs[1].sourceTransaction.lockingScript, 1, upto),
        UnlockedStack.stack, tx.inputs[1])
\* the committed keys, each as the 33 bytes of its encoding, in committed order
CommittedKeys == [k \in 1..Total |-> KeyDER(pubkeys[k])]
\* the top n items of a stack, bottom first
TopItems(stack, n) == SubSeq(stack, Len(stack) - n + 1, Len(stack))

\* C18: on a stack [dummy, sigs.., x_1 .. x_N] the locking script passes its
\* OP_EQUALVERIFY only if x_1 || .. || x_N is the concatenation of the
\* committed keys in committed order (a permuted or substituted key list
\* fails), and when execution reaches OP_CHECKMULTISIG the top of the stack is
\* M, the N committed 33-byte keys one by one in committed order, then N.
C18_KeySetProof ==
    (SourceAttached /\ HasScript /\ UnlockedStack.ok) =>
        LET ls == tx.inputs[1].sourceTransaction.lockingScript
            stack == UnlockedStack.stack
            afterVerify == LockedUpTo(Total + 3)
            beforeCheck == LockedUpTo(Len(ls) - 1)
            supplied == TopItems(stack, Total)
        IN /\ ls[Total + 3].op = 136 /\ ls[Len(ls)].op = 174
           /\ afterVerify.ok <=>
                (Len(stack) >= Total
                 /\ Flatten(TopItems(stack, Total)) = Flatten(CommittedKeys))
           /\ supplied # CommittedKeys => ~afterVerify.ok
           /\ beforeCheck.ok <=> afterVerify.ok
           /\ beforeCheck.ok =>
                /\ Len(beforeCheck.stack) = Len(stack) + 2
                /\ TopItems(beforeCheck.stack, Total + 2)
                      = <<(<<threshold>>)>> \o CommittedKeys \o <<(<<Total>>)>>
                /\ \A k \in 1..Total :
                      Len(beforeCheck.stack[Len(stack) - Total + 1 + k]) = 33

C18_Witness ==
    /\ Total = 3 /\ threshold = 2 /\ SourceAttached /\ HasScript
    /\ tmpl.set /\ tmpl.value.pubkeys = <<1, 2, 3>> /\ Len(signedBy) = 1
    /\ LockedUpTo(Total + 3).ok
    /\ TopItems(LockedUpTo(3 * Total + 4).stack, 5)
          = <<(<<2>>), KeyDER(1), KeyDER(2), KeyDER(3), (<<3>>)>>

C18_WitnessPermuted ==
    /\ Total = 3 /\ SourceAttached /\ HasScript
    /\ UnlockingScript[Len(UnlockingScript)].data = KeyDER(2)
    /\ UnlockingScript[Len(UnlockingScript) - 1].data = KeyDER(3)
    /\ ~LockedUpTo(Total + 3).ok


NoRepeats(seq) == \A i, j \in 1..Len(seq) : i # j => seq[i] # seq[j]

\* C19: addressBRC29 requests one public key per counterparty; in whatever
\* order the outstanding requests complete, the pubkeys list it returns and
\* the key order hashed into the address are the caller's counterparty order;
\* if any request fails no address is returned.
C19_DerivedOrder ==
    requests # <<>> =>
        /\ Len(requests) = Total
        /\ NoRepeats(completed)
        /\ \A k \in 1..Total : requests[k] # "pending" <=> (\E j \in 1..Len(completed) : completed[j] = k)
        /\ Returned(addr) =>
              /\ derived.set
              /\ derived.value = pubkeys
              /\ \A k \in 1..Total : requests[k] = "resolved"
              /\ SubSeq(addr.value, 2, 21)
                    = Hash160(Flatten([k \in 1..Total |-> KeyDER(pubkeys[k])]))
        /\ (\E k \in 1..Total : requests[k] = "rejected") =>
              (addr.set /\ ~addr.ok /\ ~derived.set)

C19_Witness ==
    /\ Total = 3 /\ threshold = 2 /\ completed = <<3, 1, 2>>
    /\ Returned(addr) /\ derived.set /\ derived.value = <<1, 2, 3>>
    /\ Returned(decoded) /\ decoded.value.threshold = 2 /\ decoded.value.total = 3

C19_WitnessFailed ==
    /\ Total = 3 /\ completed = <<2, 3, 1>> /\ requests = <<"resolved", "resolved", "rejected">>
    /\ addr.set /\ ~addr.ok


\* C20: the working unlocking script has one owner at a time: in every
\* reachable state at most one sign call is in progress on it, so no two sign
\* calls interleave on the same script.
C20_SingleOwner ==
    Len(pending) <= 1


\* C21: a sign call asks the wallet for at most one signature; when the
\* request fails or the signing context is missing the call ends with that
\* error and the working script passed to unlock is as it was: no chunk
\* added, none moved, and the input keeps the script it had.
C21_FailureLeavesScript ==
    [][SignStep =>
        /\ tmpl'.value.asked \in {tmpl.value.asked, tmpl.value.asked + 1}
        /\ ~outcome'.ok =>
              /\ outcome'.error = "createSignature failed"
                    \/ IsMissingSigningContext(outcome'.error)
              /\ IsMissingSigningContext(outcome'.error) =>
                    tmpl'.value.asked = tmpl.value.asked
              /\ tx' = tx
              /\ signedBy' = signedBy
              /\ tmpl'.value.signed = tmpl.value.signed
              /\ tmpl.value.workingUnlockingScript.set =>
                    tmpl'.value.workingUnlockingScript = tmpl.value.workingUnlockingScript
      ]_vars

C21_Witness ==
    /\ outcome.set /\ ~outcome.ok /\ outcome.error = "createSignature failed"
    /\ Len(signedBy) = 1 /\ HasScript /\ Len(UnlockingScript) = 1 + 1 + Total
    /\ tmpl.set /\ tmpl.value.signed = 0 /\ tmpl.value.asked = 1
    /\ tmpl.value.workingUnlockingScript = tx.inputs[1].unlockingScript


\* the signatures the input's unlocking script holds; none before the first
\* sign call has returned
SignaturesIn(t) ==
    IF t.inputs = <<>> THEN 0
    ELSE IF ~t.inputs[1].unlockingScript.set THEN 0
    ELSE Len(t.inputs[1].unlockingScript.value) - 1 - Total
FullySigned == SignaturesIn(tx) = threshold

\* C22: the signature count of the spent input changes only through a sign
\* call that returns, by exactly one, and never decreases; the input changes
\* only when it is built, signed or handed on; and with every enabled step of
\* M ascending signers eventually taken, the input ends fully signed, with
\* exactly M signatures, and stays so.
C22_SigningStateMachine ==
    /\ [][/\ SignaturesIn(tx') >= SignaturesIn(tx)
          /\ SignaturesIn(tx') # SignaturesIn(tx) =>
                /\ SignaturesIn(tx') = SignaturesIn(tx) + 1
                /\ outcome'.set /\ outcome'.ok
                /\ signedBy' # signedBy
          /\ signedBy' # signedBy => SignaturesIn(tx') = SignaturesIn(tx) + 1
          /\ SignaturesIn(tx') <= threshold
          /\ tx' # tx =>
                \/ tx.inputs = <<>>
                \/ signedBy' # signedBy
                \/ (tmpl.set /\ ~tmpl'.set)
         ]_vars
    /\ <>[](FullySigned /\ Len(signedBy) = threshold)

C22_Witness ==
    /\ Total = 4 /\ threshold = 3 /\ signedBy = <<1, 3, 4>>
    /\ FullySigned /\ ~tmpl.set


\* the numbers lock writes with writeNumber for the commitment of this run
WrittenNumbers == {threshold, PubkeyLen, Total}

\* C23: numberFromScriptChunk reads both numeric encodings: a chunk without
\* data whose opcode is OP_1..OP_16 yields 1 + (op - OP_1), a value of 1..16;
\* a data push yields the little-endian integer of its data; so every number
\* lock wrote with writeNumber (threshold, 33, total) is read back unchanged,
\* from the chunk alone and from its place in the locking script.
C23_ReadsBothEncodings ==
    Returned(locked) =>
        LET chunks == locked.value IN
        /\ \A k \in 1..Len(chunks) :
              /\ (~chunks[k].hasData /\ chunks[k].op \in OP_1..(OP_1 + 15)) =>
                    /\ numberFromScriptChunk(chunks[k]) = 1 + (chunks[k].op - OP_1)
                    /\ numberFromScriptChunk(chunks[k]) \in 1..16
              /\ (chunks[k].hasData /\ Len(chunks[k].data) <= 2) =>
                    numberFromScriptChunk(chunks[k]) = LittleEndian(chunks[k].data)
        /\ \A n \in WrittenNumbers :
              /\ \E k \in 1..Len(chunks) : chunks[k] = NumberChunk(n)
              /\ numberFromScriptChunk(NumberChunk(n)) = n
              /\ NumberChunk(n).hasData <=> n > 16
        /\ numberFromScriptChunk(chunks[IndexOfEqualVerify(chunks) + 2]) = threshold
        /\ numberFromScriptChunk(chunks[Len(chunks) - 1]) = Total
        /\ \A k \in 1..(Total - 1) :
              numberFromScriptChunk(chunks[Len(chunks) - 1 - 2 * k]) = PubkeyLen
        /\ Returned(estimate) => estimate.value = LengthFormula(threshold, Total)

C23_Witness ==
    /\ Total = 17 /\ threshold = 3
    /\ Returned(locked)
    /\ locked.value[Len(locked.value) - 1] = BinChunk(<<17>>)
    /\ ~locked.value[IndexOfEqualVerify(locked.value) + 2].hasData
    /\ Returned(estimate) /\ estimate.value = 1 + 3 * 74 + 17 * 34


\* the pubkeys and threshold arguments a caller may pass to lock next to an
\* address: no keys, the committed keys or another list, and any threshold
OtherKeyArguments == {<<>>} \cup SuppliedKeyLists(pubkeys)
OtherThresholdArguments == 0..(Total + 1)

\* C24: for every key list and threshold with 2 <= N <= 10 and 1 <= M <= N,
\* lock(address(keys, M)) and lock(undefined, keys, M) return the identical
\* locking script, and next to an address the pubkeys and threshold arguments
\* of lock change nothing in the result.
C24_PathsAgree ==
    /\ ValidCommitment =>
          LET a == address(pubkeys, threshold) IN
          /\ Returned(a)
          /\ Returned(lock(<<>>, pubkeys, threshold))
          /\ lock(a.value, <<>>, 1) = lock(<<>>, pubkeys, threshold)
          /\ \A keys \in OtherKeyArguments : \A thr \in OtherThresholdArguments :
                lock(a.value, keys, thr) = lock(a.value, <<>>, 1)
    /\ (ValidCommitment /\ locked.set) =>
          /\ locked = lock(<<>>, pubkeys, threshold)
          /\ addr.set => locked = lock(addr.value, pubkeys, threshold)

C24_Witness ==
    /\ Total = 10 /\ threshold = 10
    /\ Returned(addr) /\ Returned(locked)
    /\ locked = lock(addr.value, <<>>, 1)
    /\ locked = lock(addr.value, <<2, 1>>, 0)
    /\ locked = lock(<<>>, pubkeys, threshold)


\* the threshold and the total a 0x98 address with a full payload commits to
CommittedThreshold == VarIntAt(AddrPayload, 21)
CommittedTotal == VarIntAt(AddrPayload, 21 + VarIntSize(AddrPayload, 21))

\* C25: on both of its paths lock returns a locking script only if
\* 2 <= total <= 10 and 1 <= threshold <= total; for every other pair,
\* including one decoded from a well-formed 0x98 address, it throws and
\* returns no script.
C25_LockRange ==
    /\ (~addr.set /\ locked.set) =>
          (Returned(locked) <=>
              (2 <= Total /\ Total <= 10 /\ 1 <= threshold /\ threshold <= Total))
    /\ (Returned(addr) /\ AddrPrefix = 152 /\ Len(AddrPayload) >= 22 /\ locked.set) =>
          (Returned(locked) <=>
              /\ 2 <= CommittedTotal /\ CommittedTotal <= 10
              /\ 1 <= CommittedThreshold /\ CommittedThreshold <= CommittedTotal)


\* the signature chunk a returning sign call put into the script it returned
NewSignature(script, keys) == script[Len(script) - Len(keys)]
\* the signature chunk of wallet i over the input for a source value
SignatureFor(i, input, satoshis, scope, lockingScript) ==
    BinChunk(toChecksigFormat(
        createSignature(i, Hash256(Preimage(satoshis, SignedSequence(input), scope,
                                            lockingScript))),
        scope))

\* C26: sign treats the source value as missing only when it is absent: for
\* every non-negative source value, 0 satoshis included, passed to unlock or
\* held by the output of the attached source transaction, sign does not raise
\* MissingSigningContext and signs a preimage committing to that value.
C26_ZeroIsAValue ==
    [][SignStep =>
        LET t == tmpl.value
            input == tx.inputs[1]
            src == input.sourceTransaction
            given == t.sourceSatoshis.set \/ src.attached
            value == IF t.sourceSatoshis.set THEN t.sourceSatoshis.value ELSE src.satoshis
            script == IF t.lockingScript.set THEN t.lockingScript.value
                      ELSE src.lockingScript
            scope == signatureScope(t.signOutputs, t.anyoneCanPay)
        IN (given /\ (input.sourceTXID \/ src.attached)
                  /\ (t.lockingScript.set \/ src.attached)) =>
              /\ ~(~outcome'.ok /\ IsMissingSigningContext(outcome'.error))
              /\ outcome'.ok =>
                    NewSignature(outcome'.value, t.pubkeys)
                       = SignatureFor(t.wallet, input, value, scope, script)
      ]_vars


\* the sequence number of the input; 0xffffffff when it has none
OwnSequence(input) ==
    IF input.sequence.set THEN input.sequence.value ELSE DefaultSequence

\* C27: the preimage sign hashes commits to the spent input's own sequence
\* number, whatever 32-bit value it has, 0 included; 0xffffffff stands in only
\* for an input without a sequence number.
C27_CommitsToSequence ==
    [][(SignStep /\ outcome'.ok) =>
        LET t == tmpl.value
            input == tx.inputs[1]
            scope == signatureScope(t.signOutputs, t.anyoneCanPay)
        IN NewSignature(outcome'.value, t.pubkeys)
              = BinChunk(toChecksigFormat(
                    createSignature(t.wallet,
                        Hash256(Preimage(tmpl'.value.sourceSatoshis.value,
                                         OwnSequence(input), scope,
                                         tmpl'.value.lockingScript.value))),
                    scope))
      ]_vars


\* C28: every sign call that returns adds exactly one signature to the script
\* the closure holds, whatever that script already holds: more than M and
\* more than N signatures, and several of one signer, are accepted; a second
\* call on the same object continues from the script the first call returned
\* and signs with the source value and the locking script the first call
\* resolved, also when the input has lost its source transaction since.
C28_ClosureKeepsState ==
    [][SignStep =>
        LET t == tmpl.value
            t1 == tmpl'.value
            input == tx.inputs[1]
            src == input.sourceTransaction
            before == IF t.workingUnlockingScript.set THEN t.workingUnlockingScript.value
                      ELSE <<OpChunk(OP_0)>>
                           \o [k \in 1..Len(t.pubkeys) |-> BinChunk(KeyDER(t.pubkeys[k]))]
            scope == signatureScope(t.signOutputs, t.anyoneCanPay)
            cached == t.sourceSatoshis.set /\ t.lockingScript.set
        IN /\ (cached /\ (input.sourceTXID \/ src.attached)) => outcome'.ok
           /\ t.sourceSatoshis.set => t1.sourceSatoshis = t.sourceSatoshis
           /\ t.lockingScript.set => t1.lockingScript = t.lockingScript
           /\ outcome'.ok =>
                 LET after == outcome'.value
                     at == Len(after) - Len(t.pubkeys)
                 IN /\ Len(after) = Len(before) + 1
                    /\ SubSeq(after, 1, at - 1) = SubSeq(before, 1, at - 1)
                    /\ SubSeq(after, at + 1, Len(after)) = SubSeq(before, at, Len(before))
                    /\ after[at] = SignatureFor(t.wallet, input, t1.sourceSatoshis.value,
                                                scope, t1.lockingScript.value)
                    /\ t1.workingUnlockingScript = Some(after)
                    /\ t1.signed = t.signed + 1
                    /\ tx'.inputs[1].unlockingScript = Some(after)
                    /\ signedBy' = Append(signedBy, t.wallet)
                    /\ ~cached =>
                          /\ t1.sourceSatoshis = Some(src.satoshis)
                          /\ t1.lockingScript = Some(src.lockingScript)
      ]_vars

C28_Witness ==
    /\ Total = 2 /\ threshold = 1
    /\ signedBy = <<2, 2, 2>>
    /\ tmpl.set /\ tmpl.value.signed = 3
    /\ ~tx.inputs[1].sourceTransaction.attached
    /\ tmpl.value.sourceSatoshis = Some(1)
    /\ tmpl.value.lockingScript = Some(locked.value)
    /\ HasScript /\ SigCount = 3
    /\ UnlockingScript[2] = UnlockingScript[3] /\ UnlockingScript[3] = UnlockingScript[4]


\* the signature chunks of the unlocking script, in the order they were made
\* by signers who signed in ascending key order
SignaturesMade == SubSeq(UnlockingScript, 2, 1 + SigCount)

\* C29: the two copies of the template are equivalent on valid inputs: after
\* the same sign calls with the same instructions the older copy holds the
\* chunk sequence [OP_0, sig_1..sig_k, pubkey_1..pubkey_N] the newer one
\* holds, signatures in first-signed-first order, and for the same locking
\* script the estimateLength of either copy is at least the length of the
\* fully signed unlocking script.
C29_CopiesEquivalent ==
    (ValidCommitment /\ SourceAttached /\ HasScript) =>
        /\ legacySigned(SignaturesMade, pubkeys) = UnlockingScript
        /\ SigCount = threshold =>
              /\ Returned(legacyEstimateLength(tx.inputs[1]))
              /\ Returned(estimateLength(tx.inputs[1]))
              /\ estimateLength(tx.inputs[1]).value >= Len(toBinary(UnlockingScript))
              /\ legacyEstimateLength(tx.inputs[1]).value >= Len(toBinary(UnlockingScript))

\* the order of the signatures alone, and the estimate alone
C29_SameOrder ==
    (ValidCommitment /\ SourceAttached /\ HasScript) =>
        legacySigned(SignaturesMade, pubkeys) = UnlockingScript
C29_LegacyUpperBound ==
    (ValidCommitment /\ SourceAttached /\ HasScript /\ SigCount = threshold) =>
        legacyEstimateLength(tx.inputs[1]).value >= Len(toBinary(UnlockingScript))
C29_NewerUpperBound ==
    (ValidCommitment /\ SourceAttached /\ HasScript /\ SigCount = threshold) =>
        estimateLength(tx.inputs[1]).value >= Len(toBinary(UnlockingScript))


\* a step of estimateLength that returned something new
EstimateStep == tmpl.set /\ estimate' # estimate

\* C30: estimateLength changes nothing of the signing state (the working
\* script, the captured source value and locking script, the transaction) and
\* looks only at the source transaction attached to the input: it returns the
\* placeholder when there is none, also when a locking script was passed to
\* unlock; sign uses that script, and returns the same script whether or not
\* estimateLength ran before it.
C30_EstimateIsPure ==
    [][/\ EstimateStep =>
            /\ tmpl' = tmpl /\ tx' = tx /\ outcome' = outcome /\ signedBy' = signedBy
            /\ estimate' = IF tx.inputs[1].sourceTransaction.attached
                           THEN Ok(LengthFormula(threshold, Total))
                           ELSE Ok(GuessLength)
       /\ SignStep =>
            LET t == tmpl.value
                input == tx.inputs[1]
                src == input.sourceTransaction
                before == IF t.workingUnlockingScript.set
                          THEN t.workingUnlockingScript.value
                          ELSE InitialScript(t.pubkeys)
                scope == signatureScope(t.signOutputs, t.anyoneCanPay)
                hasValue == t.sourceSatoshis.set \/ src.attached
                hasScript == t.lockingScript.set \/ src.attached
            IN /\ outcome'.ok <=> (hasValue /\ hasScript)
               /\ outcome'.ok =>
                     outcome'.value =
                        Splice(before, Len(before) - Len(t.pubkeys),
                               SignatureFor(t.wallet, input, 1, scope,
                                            IF t.lockingScript.set
                                            THEN t.lockingScript.value
                                            ELSE src.lockingScript))
               /\ estimate' = estimate
      ]_vars

C30_Witness ==
    /\ Funded /\ ~tx.inputs[1].sourceTransaction.attached
    /\ tmpl.set /\ tmpl.value.lockingScript = Some(locked.value)
    /\ estimate = Ok(GuessLength)
    /\ Returned(outcome) /\ signedBy = <<2>>
    /\ UnlockingScript = Layout(<<2>>, pubkeys, locked.value)

====
